---- MODULE Spec2Model ----
(***************************************************************************)
(* State-machine model of the transfer/port core of usb-vhci-hcd.c (the    *)
(* virtual USB host controller).  The model follows the build in which     *)
(* OLD_GIVEBACK_MECH is not defined: the completion status lives in        *)
(* urbp->status and is handed to usb_hcd_giveback_urb as an argument.      *)
(*                                                                         *)
(* Bit masks (port_status, port_change, port_flags, port_update) are sets  *)
(* of bit positions: x & y is \cap, x | y is \cup, 1 << n is {n}.          *)
(* Integer results (0, -EPIPE, ...) are written as strings carrying the    *)
(* errno name.                                                             *)
(***************************************************************************)
EXTENDS Integers, Sequences, FiniteSets, TLC

\* ---------------------------------------------------------------- bounds
MaxUrbs == 2
NumPorts == 2
MaxLen == 1

Handles == 1 .. MaxUrbs
Ports == 1 .. NumPorts

\* ------------------------------------------------- result / status codes
SUCCESS == "0"
EINPROGRESS == "-EINPROGRESS"
EPIPE == "-EPIPE"
ESHUTDOWN == "-ESHUTDOWN"
ECANCELED == "-ECANCELED"
ECONNRESET == "-ECONNRESET"
ENOENT == "-ENOENT"
EINVAL == "-EINVAL"
ENOMEM == "-ENOMEM"
ENOBUFS == "-ENOBUFS"
EFAULT == "-EFAULT"
ENODATA == "-ENODATA"
ETIMEDOUT == "-ETIMEDOUT"
EINTR == "-EINTR"
EPROTO == "-EPROTO"
EBUSY == "-EBUSY"
EIDRM == "-EIDRM"
ENODEV == "-ENODEV"
\* no value returned yet: the call is still running
NORET == "none"

\* the status usb_unlink_urb passes to vhci_urb_dequeue (usb_kill_urb passes
\* -ENOENT, which the driver treats alike)
UnlinkStatus == {ECONNRESET}
\* status values the worker supplies in the giveback ioctl
StatusArgs == {SUCCESS, EPROTO}

\* ------------------------------------------------------- work unit types
USB_VHCI_WORK_TYPE_NONE == "NONE"
USB_VHCI_WORK_TYPE_PORT_STAT == "PORT_STAT"
USB_VHCI_WORK_TYPE_PROCESS_URB == "PROCESS_URB"
USB_VHCI_WORK_TYPE_CANCEL_URB == "CANCEL_URB"

\* ------------------------------------------------------------ port bits
USB_PORT_STAT_CONNECTION == {0}
USB_PORT_STAT_ENABLE == {1}
USB_PORT_STAT_SUSPEND == {2}
USB_PORT_STAT_OVERCURRENT == {3}
USB_PORT_STAT_RESET == {4}
USB_PORT_STAT_POWER == {8}
USB_PORT_STAT_LOW_SPEED == {9}
USB_PORT_STAT_HIGH_SPEED == {10}
USB_PORT_STAT_C_CONNECTION == {0}
USB_PORT_STAT_C_ENABLE == {1}
USB_PORT_STAT_C_SUSPEND == {2}
USB_PORT_STAT_C_OVERCURRENT == {3}
USB_PORT_STAT_C_RESET == {4}
USB_VHCI_PORT_STAT_FLAG_RESUMING == {0}

\* ------------------------------------------------------------- the urbs
\* One urb as the driver sees it: pipe type and direction, the transfer
\* buffer (length, pointer non-null), the setup packet of a control urb
\* (pointer non-null, bRequestType & 0x80, wLength) and number_of_packets.
UrbRec(t, i, l, b, s, r, w, n) ==
    [type |-> t, in |-> i, tbl |-> l, buf |-> b,
     setup |-> s, reqIn |-> r, wLength |-> w, npk |-> n]

NoUrb == UrbRec("NONE", FALSE, 0, FALSE, FALSE, FALSE, 0, 0)

BulkUrbs ==
    { UrbRec("BULK", i, l, b, FALSE, FALSE, 0, 0) :
        i \in BOOLEAN, l \in 0 .. MaxLen, b \in BOOLEAN }
IsoUrbs ==
    { UrbRec("ISO", i, l, b, FALSE, FALSE, 0, n) :
        i \in BOOLEAN, l \in 0 .. MaxLen, b \in BOOLEAN, n \in 0 .. 1 }
ControlUrbs ==
    { UrbRec("CONTROL", FALSE, l, b, TRUE, r, w, 0) :
        l \in 0 .. MaxLen, b \in BOOLEAN, r \in BOOLEAN, w \in 0 .. MaxLen + 1 }
    \cup
    { UrbRec("CONTROL", FALSE, l, b, FALSE, FALSE, 0, 0) :
        l \in 0 .. MaxLen, b \in BOOLEAN }
\* every urb descriptor the USB stack may submit
AllUrbs == BulkUrbs \cup IsoUrbs \cup ControlUrbs
\* the descriptors used where several transfers are outstanding at once:
\* a well-formed OUT transfer and a malformed IN transfer (no buffer)
CoreUrbs ==
    { UrbRec("BULK", FALSE, 1, TRUE, FALSE, FALSE, 0, 0),
      UrbRec("BULK", TRUE, 0, FALSE, FALSE, FALSE, 0, 0) }

usb_pipecontrol(u) == u.type = "CONTROL"
usb_pipeisoc(u) == u.type = "ISO"
usb_pipein(u) == u.in

\* ---------------------------------------------------------------- state
VARIABLES
    urb,                 \* handle -> descriptor of the urb submitted under it
    nurbs,               \* number of handles handed out so far
    status,              \* urbp->status
    unlinked,            \* urb->unlinked, written by usb_hcd_check_unlink_urb
    ep_list,             \* urbs linked to their endpoint (usb_hcd_link_urb_to_ep)
    given,               \* handle -> number of usb_hcd_giveback_urb calls
    gb_by,               \* handle -> <<operation that gave it back, status it supplied, list it was in>>
    actual_length,       \* urb->actual_length
    urbp_list_inbox,
    urbp_list_fetched,
    urbp_list_cancel,
    urbp_list_canceling,
    ports,               \* port index -> [port_status, port_change, port_flags]
    port_update,
    port_sched_offset,
    rh_state,
    hw_accessible,       \* HCD_FLAG_HW_ACCESSIBLE
    fw_pc,               \* position of the thread inside ioc_fetch_work
    rm_pc,               \* position of vhci_hcd_remove
    late_submit,         \* an urb was enqueued after vhci_hcd_remove began
    rm_log,              \* the lists vhci_hcd_remove gave urbs back from, in order
    port_log,            \* history of the port reports made to the worker
    last                 \* outcome of the most recent operation step

regvars == <<urb, nurbs, status, unlinked, ep_list, given, gb_by, actual_length,
             urbp_list_inbox, urbp_list_fetched, urbp_list_cancel,
             urbp_list_canceling>>
portvars == <<ports, port_update, port_sched_offset, rh_state, hw_accessible>>
vars == <<urb, nurbs, status, unlinked, ep_list, given, gb_by, actual_length,
          urbp_list_inbox, urbp_list_fetched, urbp_list_cancel,
          urbp_list_canceling, ports, port_update, port_sched_offset,
          rh_state, hw_accessible, fw_pc, rm_pc, late_submit, rm_log, port_log, last>>

\* ---------------------------------------------------------- list helpers
\* defect: the search looks at the first entry only
InList_head(l, h) == l # <<>> /\ Head(l) = h
InList(l, h) == \E i \in 1 .. Len(l) : l[i] = h
\* defect: the entry is left on its list
list_del_keeps(l, h) == l
\* defect: only the head of the list can be taken off
list_del_head(l, h) == IF l # <<>> /\ Head(l) = h THEN Tail(l) ELSE l
list_del(l, h) == SelectSeq(l, LAMBDA x : x # h)
\* defect: the entry is put at the head of the list
list_add_head(l, h) == <<h>> \o l
list_add_tail(l, h) == Append(l, h)
list_empty(l) == Len(l) = 0

QueueOf(h) ==
    IF InList(urbp_list_inbox, h) THEN "inbox"
    ELSE IF InList(urbp_list_fetched, h) THEN "fetched"
    ELSE IF InList(urbp_list_cancel, h) THEN "cancel"
    ELSE IF InList(urbp_list_canceling, h) THEN "canceling"
    ELSE "none"

\* outcome record of one operation step
Outcome(op, h, ret, work, port, wake, gb, gbq) ==
    [op |-> op, handle |-> h, ret |-> ret, work |-> work, port |-> port,
     wake |-> wake, gb |-> gb, gbq |-> gbq, data |-> <<>>, req |-> <<>>]

\* the outcome of a step that hands port data out or takes a port request
PortOutcome(op, ret, work, port, wake, data) ==
    [op |-> op, handle |-> 0, ret |-> ret, work |-> work, port |-> port,
     wake |-> wake, gb |-> 0, gbq |-> "none", data |-> data, req |-> <<>>]

\* ----------------------------------------------------------------- Init
vhci_start ==
    /\ urb = [h \in Handles |-> NoUrb]
    /\ nurbs = 0
    /\ status = [h \in Handles |-> SUCCESS]
    /\ unlinked = [h \in Handles |-> SUCCESS]
    /\ ep_list = {}
    /\ given = [h \in Handles |-> 0]
    /\ gb_by = [h \in Handles |-> <<"none", "none", "none">>]
    /\ actual_length = [h \in Handles |-> 0]
    /\ urbp_list_inbox = <<>>
    /\ urbp_list_fetched = <<>>
    /\ urbp_list_cancel = <<>>
    /\ urbp_list_canceling = <<>>
    /\ ports = [p \in Ports |->
                  [port_status |-> {}, port_change |-> {}, port_flags |-> {}]]
    /\ port_update = {}
    /\ port_sched_offset = 0
    /\ rh_state = "RUNNING"
    /\ hw_accessible = TRUE
    /\ fw_pc = "idle"
    /\ rm_pc = "idle"
    /\ late_submit = FALSE
    /\ rm_log = <<>>
    /\ port_log = [prev |-> 0, armed |-> FALSE, from |-> 0, seq |-> <<>>]
    /\ last = Outcome("start", 0, SUCCESS, USB_VHCI_WORK_TYPE_NONE, 0, FALSE, 0, "none")

Init == vhci_start

\* ------------------------------------------------------ status and giveback
\* atomic_cmpxchg(&urbp->status, -EINPROGRESS, status)
maybe_set_status(st, h, s) ==
    IF st[h] = EINPROGRESS THEN [st EXCEPT ![h] = s] ELSE st

\* vhci_urb_giveback: unlink the urb from its list and from its endpoint and
\* call usb_hcd_giveback_urb with the status read from urbp->status.  The
\* caller sets status' first.  by and st name the calling operation and the
\* status it supplied, for the history gb_by.
vhci_urb_giveback(h, by, st) ==
    /\ gb_by' = [gb_by EXCEPT ![h] = <<by, st, QueueOf(h)>>]
    /\ urbp_list_inbox' = list_del(urbp_list_inbox, h)
    /\ urbp_list_fetched' = list_del(urbp_list_fetched, h)
    /\ urbp_list_cancel' = list_del(urbp_list_cancel, h)
    /\ urbp_list_canceling' = list_del(urbp_list_canceling, h)
    /\ ep_list' = ep_list \ {h}
    /\ given' = [given EXCEPT ![h] = @ + 1]

\* the status argument of the usb_hcd_giveback_urb call for a given-back urb
GivebackStatus(h) == status[h]

\* what the owner's completion handler observes: usb_hcd_giveback_urb
\* replaces the status argument by urb->unlinked when the urb was unlinked
OwnerStatus(h) == IF unlinked[h] # SUCCESS THEN unlinked[h] ELSE status[h]

Running == rm_pc # "done"

\* ------------------------------------------------------------- enqueue
\* env: "ok", or the allocation / endpoint-link failure the kernel reports
\* defect: the buffer test is missing
enqueue_rejects_none(u) == FALSE
\* the argument test at the top of vhci_urb_enqueue
enqueue_rejects(u) == ~u.buf /\ u.tbl # 0

\* last.data of an enqueue step holds the descriptor passed in
vhci_urb_enqueue(u, env) ==
    /\ Running
    /\ nurbs < MaxUrbs
    /\ LET h == nurbs + 1 IN
       IF enqueue_rejects(u) THEN
           /\ last' = [Outcome("enqueue", h, EINVAL, USB_VHCI_WORK_TYPE_NONE, 0, FALSE, 0, "none")
                          EXCEPT !.data = <<u>>]
           /\ UNCHANGED <<regvars, portvars, fw_pc, rm_pc, late_submit, rm_log, port_log>>
       ELSE IF env = "nomem" THEN
           /\ last' = [Outcome("enqueue", h, ENOMEM, USB_VHCI_WORK_TYPE_NONE, 0, FALSE, 0, "none")
                          EXCEPT !.data = <<u>>]
           /\ UNCHANGED <<regvars, portvars, fw_pc, rm_pc, late_submit, rm_log, port_log>>
       ELSE IF env = "nolink" THEN
           /\ last' = [Outcome("enqueue", h, ESHUTDOWN, USB_VHCI_WORK_TYPE_NONE, 0, FALSE, 0, "none")
                          EXCEPT !.data = <<u>>]
           /\ UNCHANGED <<regvars, portvars, fw_pc, rm_pc, late_submit, rm_log, port_log>>
       ELSE
           /\ urb' = [urb EXCEPT ![h] = u]
           /\ nurbs' = h
           /\ status' = [status EXCEPT ![h] = SUCCESS]
           /\ unlinked' = [unlinked EXCEPT ![h] = SUCCESS]
           /\ ep_list' = ep_list \cup {h}
           /\ urbp_list_inbox' = list_add_tail(urbp_list_inbox, h)
           /\ late_submit' = (late_submit \/ rm_pc # "idle")
           /\ last' = [Outcome("enqueue", h, SUCCESS, USB_VHCI_WORK_TYPE_NONE, 0, TRUE, 0, "none")
                          EXCEPT !.data = <<u>>]
           /\ UNCHANGED <<given, gb_by, actual_length, urbp_list_fetched, urbp_list_cancel,
                          urbp_list_canceling, portvars, fw_pc, rm_pc, rm_log, port_log>>

\* ------------------------------------------------------------- dequeue
\* retval of the usb_hcd_check_unlink_urb call: -EIDRM for an urb that is
\* not linked to its endpoint, -EBUSY for one whose unlink is already in
\* progress; on 0 the call has recorded urb->unlinked = status
\* defect: the unlink is recorded although the urb is no longer linked
check_unlink_always(h) == SUCCESS
\* defect: a second unlink of a linked urb is accepted
check_unlink_again(h) == IF h \notin ep_list THEN EIDRM ELSE SUCCESS
check_unlink(h) ==
    IF h \notin ep_list THEN EIDRM
    ELSE IF unlinked[h] # SUCCESS THEN EBUSY
    ELSE SUCCESS

vhci_urb_dequeue(h, s) ==
    /\ Running
    /\ h <= nurbs
    /\ IF check_unlink(h) # SUCCESS THEN
           /\ last' = Outcome("dequeue", h, check_unlink(h), USB_VHCI_WORK_TYPE_NONE,
                              0, FALSE, 0, "none")
           /\ UNCHANGED <<regvars, portvars, fw_pc, rm_pc, late_submit, rm_log, port_log>>
       ELSE
           /\ unlinked' = [unlinked EXCEPT ![h] = s]
           /\ IF InList(urbp_list_inbox, h) THEN
                  /\ vhci_urb_giveback(h, "dequeue", s)
                  /\ last' = Outcome("dequeue", h, SUCCESS, USB_VHCI_WORK_TYPE_NONE, 0, FALSE, h, "inbox")
              ELSE IF InList(urbp_list_fetched, h) THEN
                  /\ urbp_list_fetched' = list_del(urbp_list_fetched, h)
                  /\ urbp_list_cancel' = list_add_tail(urbp_list_cancel, h)
                  /\ last' = Outcome("dequeue", h, SUCCESS, USB_VHCI_WORK_TYPE_NONE, 0, TRUE, 0, "none")
                  /\ UNCHANGED <<ep_list, given, gb_by, urbp_list_inbox, urbp_list_canceling>>
              ELSE
                  /\ last' = Outcome("dequeue", h, SUCCESS, USB_VHCI_WORK_TYPE_NONE, 0, FALSE, 0, "none")
                  /\ UNCHANGED <<ep_list, given, gb_by, urbp_list_inbox, urbp_list_fetched,
                                 urbp_list_cancel, urbp_list_canceling>>
           /\ UNCHANGED <<urb, nurbs, status, actual_length, portvars, fw_pc, rm_pc,
                          late_submit, rm_log, port_log>>

\* ------------------------------------------------------- port updates
\* userspace_needs_port_update: vhc->port_update |= 1 << port
\* defect: the bit of the port is not set
userspace_needs_port_update_lost(pu, port) == pu
userspace_needs_port_update(pu, port) == pu \cup {port}

\* History of port reports.  prev is the port of the latest PORT_STAT unit
\* (0: none yet).  A round is armed by a step that raises an update and
\* leaves every port with its update bit set; from is prev at that moment
\* and seq the ports reported since.  Any later raise starts over.
log_raise(pu) ==
    IF pu = Ports
    THEN [prev |-> port_log.prev, armed |-> TRUE, from |-> port_log.prev, seq |-> <<>>]
    ELSE [prev |-> port_log.prev, armed |-> FALSE, from |-> 0, seq |-> <<>>]

log_report(port) ==
    IF port_log.armed
    THEN [port_log EXCEPT !.prev = port, !.seq = Append(@, port)]
    ELSE [port_log EXCEPT !.prev = port]

\* ---------------------------------------------------------- hub control
USB_PORT_FEAT_CONNECTION == 0
USB_PORT_FEAT_ENABLE == 1
USB_PORT_FEAT_SUSPEND == 2
USB_PORT_FEAT_OVER_CURRENT == 3
USB_PORT_FEAT_RESET == 4
USB_PORT_FEAT_POWER == 8
USB_PORT_FEAT_LOWSPEED == 9
USB_PORT_FEAT_HIGHSPEED == 10
USB_PORT_FEAT_C_CONNECTION == 16
USB_PORT_FEAT_C_ENABLE == 17
USB_PORT_FEAT_C_SUSPEND == 18
USB_PORT_FEAT_C_OVER_CURRENT == 19
USB_PORT_FEAT_C_RESET == 20
USB_PORT_FEAT_INDICATOR == 22
C_HUB_LOCAL_POWER == 0
C_HUB_OVER_CURRENT == 1

ChangeFeatures ==
    {USB_PORT_FEAT_C_CONNECTION, USB_PORT_FEAT_C_ENABLE, USB_PORT_FEAT_C_SUSPEND,
     USB_PORT_FEAT_C_OVER_CURRENT, USB_PORT_FEAT_C_RESET}

PortRec(ps, pc, pf) == [port_status |-> ps, port_change |-> pc, port_flags |-> pf]

\* result of one port request: stall (goto err), the port afterwards, and
\* whether userspace_needs_port_update was called
PortResult(stall, pt, upd) == [stall |-> stall, port |-> pt, upd |-> upd]

\* the test ClearPortFeature(PORT_SUSPEND) makes on the status word
\* defect: a port that is not suspended starts resuming as well
resume_allowed_any(ps) == ps \cap USB_PORT_STAT_SUSPEND # {} \/ ps \cap USB_PORT_STAT_POWER # {}
resume_allowed(ps) == ps \cap USB_PORT_STAT_SUSPEND # {}

\* case ClearPortFeature of vhci_hub_control, on the port record pt
clear_port_feature(pt, wValue) ==
    LET ps == pt.port_status
        pc == pt.port_change
        pf == pt.port_flags
    IN  IF wValue = USB_PORT_FEAT_SUSPEND THEN
            IF resume_allowed(ps)
            THEN PortResult(FALSE, PortRec(ps, pc, pf \cup USB_VHCI_PORT_STAT_FLAG_RESUMING), TRUE)
            ELSE PortResult(FALSE, pt, FALSE)
        ELSE IF wValue = USB_PORT_FEAT_POWER THEN
            IF ps \cap USB_PORT_STAT_POWER # {}
            THEN PortResult(FALSE,
                            PortRec(ps \cap USB_PORT_STAT_OVERCURRENT,
                                    pc \cap USB_PORT_STAT_C_OVERCURRENT,
                                    pf \ USB_VHCI_PORT_STAT_FLAG_RESUMING), TRUE)
            ELSE PortResult(FALSE, pt, FALSE)
        ELSE IF wValue = USB_PORT_FEAT_ENABLE THEN
            IF ps \cap USB_PORT_STAT_ENABLE # {}
            THEN PortResult(FALSE,
                            PortRec(ps \ (USB_PORT_STAT_ENABLE \cup USB_PORT_STAT_SUSPEND),
                                    pc \ (USB_PORT_STAT_C_ENABLE \cup USB_PORT_STAT_C_SUSPEND),
                                    pf \ USB_VHCI_PORT_STAT_FLAG_RESUMING), TRUE)
            ELSE PortResult(FALSE, pt, FALSE)
        ELSE IF wValue \in {USB_PORT_FEAT_CONNECTION, USB_PORT_FEAT_OVER_CURRENT,
                            USB_PORT_FEAT_RESET, USB_PORT_FEAT_LOWSPEED,
                            USB_PORT_FEAT_HIGHSPEED, USB_PORT_FEAT_INDICATOR} THEN
            PortResult(FALSE, pt, FALSE)
        ELSE IF wValue \in ChangeFeatures THEN
            IF pc \cap {wValue - 16} # {}
            THEN PortResult(FALSE, PortRec(ps, pc \ {wValue - 16}, pf), TRUE)
            ELSE PortResult(FALSE, pt, FALSE)
        ELSE PortResult(TRUE, pt, FALSE)

\* the test SetPortFeature(PORT_SUSPEND) makes on the status word
\* defect: a port that is not enabled is suspended as well
suspend_allowed_any(ps) == ps \cap USB_PORT_STAT_SUSPEND = {}
suspend_allowed(ps) ==
    ps \cap USB_PORT_STAT_ENABLE # {} /\ ps \cap USB_PORT_STAT_SUSPEND = {}

\* the status bits a port reset keeps
\* defect: the enable bit survives the reset
reset_keeps_enable ==
    USB_PORT_STAT_POWER \cup USB_PORT_STAT_CONNECTION \cup USB_PORT_STAT_LOW_SPEED
    \cup USB_PORT_STAT_HIGH_SPEED \cup USB_PORT_STAT_OVERCURRENT \cup USB_PORT_STAT_ENABLE
reset_keeps ==
    USB_PORT_STAT_POWER \cup USB_PORT_STAT_CONNECTION \cup USB_PORT_STAT_LOW_SPEED
    \cup USB_PORT_STAT_HIGH_SPEED \cup USB_PORT_STAT_OVERCURRENT

\* case SetPortFeature of vhci_hub_control, on the port record pt
set_port_feature(pt, wValue) ==
    LET ps == pt.port_status
        pc == pt.port_change
        pf == pt.port_flags
    IN  IF wValue = USB_PORT_FEAT_SUSPEND THEN
            IF suspend_allowed(ps)
            THEN PortResult(FALSE, PortRec(ps \cup USB_PORT_STAT_SUSPEND, pc, pf), TRUE)
            ELSE PortResult(FALSE, pt, FALSE)
        ELSE IF wValue = USB_PORT_FEAT_POWER THEN
            IF ps \cap USB_PORT_STAT_POWER = {}
            THEN PortResult(FALSE, PortRec(ps \cup USB_PORT_STAT_POWER, pc, pf), TRUE)
            ELSE PortResult(FALSE, pt, FALSE)
        ELSE IF wValue = USB_PORT_FEAT_RESET THEN
            IF ps \cap USB_PORT_STAT_CONNECTION # {} /\ ps \cap USB_PORT_STAT_RESET = {}
            THEN PortResult(FALSE,
                            PortRec((ps \cap reset_keeps) \cup USB_PORT_STAT_RESET,
                                    pc,
                                    pf \ USB_VHCI_PORT_STAT_FLAG_RESUMING), TRUE)
            ELSE PortResult(FALSE, pt, FALSE)
        ELSE IF wValue \in {USB_PORT_FEAT_CONNECTION, USB_PORT_FEAT_OVER_CURRENT,
                            USB_PORT_FEAT_LOWSPEED, USB_PORT_FEAT_HIGHSPEED,
                            USB_PORT_FEAT_INDICATOR} THEN
            PortResult(FALSE, pt, FALSE)
        ELSE IF wValue \in ChangeFeatures THEN
            IF pc \cap {wValue - 16} = {}
            THEN PortResult(FALSE, PortRec(ps, pc \cup {wValue - 16}, pf), TRUE)
            ELSE PortResult(FALSE, pt, FALSE)
        ELSE PortResult(TRUE, pt, FALSE)

\* the requests that address a port, and the parameter check they share
PortRequests == {"ClearPortFeature", "SetPortFeature"}

\* TRUE when vhci_hub_control jumps to err before touching any port
\* defect: wLength of a port request is not looked at
hub_control_rejects_lax(typeReq, wValue, wIndex, wLength) ==
    IF typeReq \in {"ClearHubFeature", "SetHubFeature"} THEN
        wIndex # 0 \/ wLength # 0
        \/ (wValue # C_HUB_LOCAL_POWER /\ wValue # C_HUB_OVER_CURRENT)
    ELSE IF typeReq \in PortRequests THEN
        wIndex = 0 \/ wIndex > NumPorts
    ELSE IF typeReq = "GetHubDescriptor" THEN wIndex # 0
    ELSE IF typeReq = "GetHubStatus" THEN wValue # 0 \/ wIndex # 0 \/ wLength # 4
    ELSE IF typeReq = "GetPortStatus" THEN
        wValue # 0 \/ wIndex = 0 \/ wIndex > NumPorts \/ wLength # 4
    ELSE TRUE
hub_control_rejects(typeReq, wValue, wIndex, wLength) ==
    IF typeReq \in {"ClearHubFeature", "SetHubFeature"} THEN
        wIndex # 0 \/ wLength # 0
        \/ (wValue # C_HUB_LOCAL_POWER /\ wValue # C_HUB_OVER_CURRENT)
    ELSE IF typeReq \in PortRequests THEN
        wIndex = 0 \/ wIndex > NumPorts \/ wLength # 0
    ELSE IF typeReq = "GetHubDescriptor" THEN wIndex # 0
    ELSE IF typeReq = "GetHubStatus" THEN wValue # 0 \/ wIndex # 0 \/ wLength # 4
    ELSE IF typeReq = "GetPortStatus" THEN
        wValue # 0 \/ wIndex = 0 \/ wIndex > NumPorts \/ wLength # 4
    ELSE TRUE

\* the outcome of vhci_hub_control: last.req holds wValue and wLength
HubOutcome(typeReq, wValue, wIndex, wLength, ret, wake, data) ==
    [PortOutcome(typeReq, ret, USB_VHCI_WORK_TYPE_NONE, wIndex, wake, data)
        EXCEPT !.req = <<wValue, wLength>>]

vhci_hub_control(typeReq, wValue, wIndex, wLength) ==
    /\ Running
    /\ UNCHANGED <<regvars, port_sched_offset, rh_state, hw_accessible,
                   fw_pc, rm_pc, late_submit, rm_log>>
    /\ IF ~hw_accessible THEN
           /\ last' = HubOutcome(typeReq, wValue, wIndex, wLength, ETIMEDOUT, FALSE, <<>>)
           /\ UNCHANGED <<ports, port_update, port_log>>
       ELSE IF hub_control_rejects(typeReq, wValue, wIndex, wLength) THEN
           /\ last' = HubOutcome(typeReq, wValue, wIndex, wLength, EPIPE, FALSE, <<>>)
           /\ UNCHANGED <<ports, port_update, port_log>>
       ELSE IF typeReq \in PortRequests THEN
           LET r == IF typeReq = "ClearPortFeature"
                    THEN clear_port_feature(ports[wIndex], wValue)
                    ELSE set_port_feature(ports[wIndex], wValue)
               pu == IF r.upd THEN userspace_needs_port_update(port_update, wIndex)
                     ELSE port_update
           IN  /\ ports' = [ports EXCEPT ![wIndex] = r.port]
               /\ port_update' = pu
               /\ port_log' = IF r.upd THEN log_raise(pu) ELSE port_log
               /\ last' = HubOutcome(typeReq, wValue, wIndex, wLength,
                                     IF r.stall THEN EPIPE ELSE SUCCESS, r.upd, <<wValue>>)
       ELSE
           /\ last' = HubOutcome(typeReq, wValue, wIndex, wLength, SUCCESS, FALSE,
                                 IF typeReq = "GetPortStatus"
                                 THEN <<ports[wIndex].port_status,
                                        ports[wIndex].port_change>>
                                 ELSE <<>>)
           /\ UNCHANGED <<ports, port_update, port_log>>

\* ------------------------------------------------------------ port stat
\* the change values ioc_port_stat accepts
PortStatChanges ==
    {USB_PORT_STAT_C_CONNECTION, USB_PORT_STAT_C_ENABLE, USB_PORT_STAT_C_SUSPEND,
     USB_PORT_STAT_C_OVERCURRENT, USB_PORT_STAT_C_RESET,
     USB_PORT_STAT_C_RESET \cup USB_PORT_STAT_C_ENABLE}

\* the test ioc_port_stat makes on a report of a completed reset
\* defect: the report is accepted for a port that is not resetting
reset_report_refused_lax(ps, st) ==
    ps \cap USB_PORT_STAT_CONNECTION = {} \/ st \cap USB_PORT_STAT_RESET # {}
reset_report_refused(ps, st) ==
    \/ ps \cap USB_PORT_STAT_CONNECTION = {}
    \/ ps \cap USB_PORT_STAT_RESET = {}
    \/ st \cap USB_PORT_STAT_RESET # {}

\* the speed bit a reported connection sets: low speed wins over high speed
\* defect: the speed bits are copied as the worker passed them
connect_speed_copied(st) == st \cap (USB_PORT_STAT_LOW_SPEED \cup USB_PORT_STAT_HIGH_SPEED)
connect_speed(st) ==
    IF st \cap USB_PORT_STAT_LOW_SPEED # {} THEN USB_PORT_STAT_LOW_SPEED
    ELSE IF st \cap USB_PORT_STAT_HIGH_SPEED # {} THEN USB_PORT_STAT_HIGH_SPEED
    ELSE {}

\* The switch of ioc_port_stat on a powered port: stall stands for the
\* -EPROTO returns, upd for reaching userspace_needs_port_update.
port_stat_switch(pt, st, change) ==
    LET ps == pt.port_status
        pc == pt.port_change
        pf == pt.port_flags
        has(x, b) == x \cap b # {}
    IN  IF change = USB_PORT_STAT_C_CONNECTION THEN
            LET overcurrent == ps \cap USB_PORT_STAT_OVERCURRENT
                speed == connect_speed(st)
            IN  PortResult(FALSE,
                    PortRec(IF has(st, USB_PORT_STAT_CONNECTION)
                            THEN USB_PORT_STAT_POWER \cup USB_PORT_STAT_CONNECTION
                                 \cup speed \cup overcurrent
                            ELSE USB_PORT_STAT_POWER \cup overcurrent,
                            pc \cup USB_PORT_STAT_C_CONNECTION,
                            pf \ USB_VHCI_PORT_STAT_FLAG_RESUMING), TRUE)
        ELSE IF change = USB_PORT_STAT_C_ENABLE THEN
            IF ~has(ps, USB_PORT_STAT_CONNECTION) \/ has(ps, USB_PORT_STAT_RESET)
               \/ has(st, USB_PORT_STAT_ENABLE)
            THEN PortResult(TRUE, pt, FALSE)
            ELSE PortResult(FALSE,
                    PortRec(ps \ (USB_PORT_STAT_ENABLE \cup USB_PORT_STAT_SUSPEND),
                            pc \cup USB_PORT_STAT_C_ENABLE,
                            pf \ USB_VHCI_PORT_STAT_FLAG_RESUMING), TRUE)
        ELSE IF change = USB_PORT_STAT_C_SUSPEND THEN
            IF ~has(ps, USB_PORT_STAT_CONNECTION) \/ ~has(ps, USB_PORT_STAT_ENABLE)
               \/ has(ps, USB_PORT_STAT_RESET) \/ has(st, USB_PORT_STAT_SUSPEND)
            THEN PortResult(TRUE, pt, FALSE)
            ELSE PortResult(FALSE,
                    PortRec(ps \ USB_PORT_STAT_SUSPEND,
                            pc \cup USB_PORT_STAT_C_SUSPEND,
                            pf \ USB_VHCI_PORT_STAT_FLAG_RESUMING), TRUE)
        ELSE IF change = USB_PORT_STAT_C_OVERCURRENT THEN
            PortResult(FALSE,
                PortRec((ps \ USB_PORT_STAT_OVERCURRENT)
                        \cup (st \cap USB_PORT_STAT_OVERCURRENT),
                        pc \cup USB_PORT_STAT_C_OVERCURRENT, pf), TRUE)
        ELSE \* USB_PORT_STAT_C_RESET [| USB_PORT_STAT_C_ENABLE]
            IF reset_report_refused(ps, st)
            THEN PortResult(TRUE, pt, FALSE)
            ELSE IF has(change, USB_PORT_STAT_C_ENABLE) THEN
                IF has(st, USB_PORT_STAT_ENABLE)
                THEN PortResult(TRUE, pt, FALSE)
                ELSE PortResult(FALSE,
                        PortRec(ps \ USB_PORT_STAT_RESET,
                                pc \cup USB_PORT_STAT_C_ENABLE \cup USB_PORT_STAT_C_RESET,
                                pf), TRUE)
            ELSE PortResult(FALSE,
                    PortRec((ps \cup (st \cap USB_PORT_STAT_ENABLE)) \ USB_PORT_STAT_RESET,
                            pc \cup USB_PORT_STAT_C_RESET, pf), TRUE)

\* the power test of ioc_port_stat
\* defect: events are taken for a port without power
port_stat_unpowered_never(pt) == FALSE
port_stat_unpowered(pt) == pt.port_status \cap USB_PORT_STAT_POWER = {}

\* the argument test of ioc_port_stat
\* defect: the change value is not looked at
port_stat_rejects_index_only(index, change) == index = 0 \/ index > NumPorts
port_stat_rejects(index, change) ==
    index = 0 \/ index > NumPorts \/ change \notin PortStatChanges

ioc_port_stat(index, st, change) ==
    /\ Running
    /\ UNCHANGED <<regvars, port_sched_offset, rh_state, hw_accessible,
                   fw_pc, rm_pc, late_submit, rm_log>>
    /\ IF port_stat_rejects(index, change) THEN
           /\ last' = PortOutcome("port_stat", EINVAL, USB_VHCI_WORK_TYPE_NONE,
                                  index, FALSE, <<st, change>>)
           /\ UNCHANGED <<ports, port_update, port_log>>
       ELSE IF port_stat_unpowered(ports[index]) THEN
           /\ last' = PortOutcome("port_stat", EPROTO, USB_VHCI_WORK_TYPE_NONE,
                                  index, FALSE, <<st, change>>)
           /\ UNCHANGED <<ports, port_update, port_log>>
       ELSE
           LET r == port_stat_switch(ports[index], st, change)
               pu == IF r.upd THEN userspace_needs_port_update(port_update, index)
                     ELSE port_update
           IN  /\ ports' = [ports EXCEPT ![index] = r.port]
               /\ port_update' = pu
               /\ port_log' = IF r.upd THEN log_raise(pu) ELSE port_log
               /\ last' = PortOutcome("port_stat", IF r.stall THEN EPROTO ELSE SUCCESS,
                                      USB_VHCI_WORK_TYPE_NONE, index, r.upd, <<st, change>>)

\* ----------------------------------------------------------- hub status
\* the bits vhci_hub_status sets in buf: bit port + 1 for a port with changes
\* defect: the bit of a port is its zero-based index
hub_status_bits_index == { p - 1 : p \in { q \in Ports : ports[q].port_change # {} } }
hub_status_bits == { p \in Ports : ports[p].port_change # {} }

vhci_hub_status ==
    /\ Running
    /\ UNCHANGED <<regvars, portvars, fw_pc, rm_pc, late_submit, rm_log, port_log>>
    /\ IF ~hw_accessible THEN
           last' = PortOutcome("hub_status", SUCCESS, USB_VHCI_WORK_TYPE_NONE,
                               0, FALSE, <<{}>>)
       ELSE
           last' = PortOutcome("hub_status",
                               IF hub_status_bits # {} THEN "1" ELSE SUCCESS,
                               USB_VHCI_WORK_TYPE_NONE, 0, FALSE, <<hub_status_bits>>)

\* ------------------------------------------------------ suspend / resume
\* defect: suspending a port drops its change bits
bus_suspend_port_clears(pt) ==
    IF pt.port_status \cap USB_PORT_STAT_ENABLE # {}
       /\ pt.port_status \cap USB_PORT_STAT_SUSPEND = {}
    THEN PortRec(pt.port_status \cup USB_PORT_STAT_SUSPEND, {},
                 pt.port_flags \ USB_VHCI_PORT_STAT_FLAG_RESUMING)
    ELSE pt
\* the port vhci_bus_suspend leaves behind
bus_suspend_port(pt) ==
    IF pt.port_status \cap USB_PORT_STAT_ENABLE # {}
       /\ pt.port_status \cap USB_PORT_STAT_SUSPEND = {}
    THEN PortRec(pt.port_status \cup USB_PORT_STAT_SUSPEND, pt.port_change,
                 pt.port_flags \ USB_VHCI_PORT_STAT_FLAG_RESUMING)
    ELSE pt

vhci_bus_suspend ==
    /\ Running
    /\ UNCHANGED <<regvars, port_sched_offset, hw_accessible,
                   fw_pc, rm_pc, late_submit, rm_log>>
    /\ LET hit == { p \in Ports : bus_suspend_port(ports[p]) # ports[p] }
           pu == port_update \cup hit
       IN  /\ ports' = [p \in Ports |-> bus_suspend_port(ports[p])]
           /\ port_update' = pu
           /\ port_log' = IF hit # {} THEN log_raise(pu) ELSE port_log
           /\ rh_state' = "SUSPENDED"
           /\ last' = PortOutcome("bus_suspend", SUCCESS, USB_VHCI_WORK_TYPE_NONE,
                                  0, hit # {}, <<>>)

vhci_bus_resume ==
    /\ Running
    /\ UNCHANGED <<regvars, ports, port_update, port_sched_offset, hw_accessible,
                   fw_pc, rm_pc, late_submit, rm_log, port_log>>
    /\ IF ~hw_accessible THEN
           /\ last' = PortOutcome("bus_resume", ENODEV, USB_VHCI_WORK_TYPE_NONE, 0, FALSE, <<>>)
           /\ UNCHANGED rh_state
       ELSE
           /\ rh_state' = "RUNNING"
           /\ last' = PortOutcome("bus_resume", SUCCESS, USB_VHCI_WORK_TYPE_NONE, 0, FALSE, <<>>)

vhci_hcd_suspend ==
    /\ Running
    /\ UNCHANGED <<regvars, ports, port_update, port_sched_offset, rh_state,
                   fw_pc, rm_pc, late_submit, rm_log, port_log>>
    /\ IF rh_state = "RUNNING" THEN
           /\ last' = PortOutcome("hcd_suspend", EBUSY, USB_VHCI_WORK_TYPE_NONE, 0, FALSE, <<>>)
           /\ UNCHANGED hw_accessible
       ELSE
           /\ hw_accessible' = FALSE
           /\ last' = PortOutcome("hcd_suspend", SUCCESS, USB_VHCI_WORK_TYPE_NONE, 0, FALSE, <<>>)

vhci_hcd_resume ==
    /\ Running
    /\ UNCHANGED <<regvars, ports, port_update, port_sched_offset, rh_state,
                   fw_pc, rm_pc, late_submit, rm_log, port_log>>
    /\ hw_accessible' = TRUE
    /\ last' = PortOutcome("hcd_resume", SUCCESS, USB_VHCI_WORK_TYPE_NONE, 0, FALSE, <<>>)

\* ----------------------------------------------------------- fetch work
\* defect: a urb in the inbox does not end the wait
has_work_no_inbox == port_update # {} \/ ~list_empty(urbp_list_cancel)
\* defect: the wait ends without work
has_work_always == TRUE
has_work ==
    \/ port_update # {}
    \/ ~list_empty(urbp_list_cancel)
    \/ ~list_empty(urbp_list_inbox)

\* defect: the checks on IN transfers are missing
invalid_urb_lax(u) ==
    IF usb_pipecontrol(u) THEN ~u.setup \/ u.wLength > u.tbl
    ELSE ~usb_pipein(u) /\ u.tbl # 0 /\ ~u.buf
\* the consistency checks ioc_fetch_work makes on the head of the inbox
invalid_urb(u) ==
    IF usb_pipecontrol(u) THEN
        \/ ~u.setup
        \/ u.wLength > u.tbl
        \/ (u.reqIn /\ (u.wLength = 0 \/ ~u.buf))
        \/ (~u.reqIn /\ u.wLength # 0 /\ ~u.buf)
    ELSE
        \/ (usb_pipein(u) /\ (u.tbl = 0 \/ ~u.buf))
        \/ (~usb_pipein(u) /\ u.tbl # 0 /\ ~u.buf)

\* the wait at the top of ioc_fetch_work.  timeout: 0 checks once, a
\* positive value waits a bounded time, a negative one waits without bound;
\* intr: a signal arrives while the caller sleeps.
ioc_fetch_work_wait(timeout, intr) ==
    /\ Running
    /\ fw_pc = "idle"
    /\ IF has_work THEN
           /\ fw_pc' = "locked"
           /\ UNCHANGED last
       ELSE
           /\ (timeout < 0 => intr)
           /\ fw_pc' = "idle"
           /\ last' = Outcome("fetch_work", 0,
                              IF timeout # 0 /\ intr THEN EINTR ELSE ETIMEDOUT,
                              USB_VHCI_WORK_TYPE_NONE, 0, FALSE, 0, "none")
    /\ UNCHANGED <<regvars, portvars, rm_pc, late_submit, rm_log, port_log>>

\* list_entry(head.next, ...): the oldest entry of a non-empty list
\* defect: the newest entry is taken
list_first_newest(l) == l[Len(l)]
list_first(l) == Head(l)

\* the part of ioc_fetch_work from the label repeat on: one look at the head
\* of the inbox.  off is the value of port_sched_offset to store.
fetch_inbox(off) ==
    /\ port_sched_offset' = off
    /\ UNCHANGED <<ports, port_update, rh_state, hw_accessible, port_log>>
    /\ IF ~list_empty(urbp_list_inbox) THEN
           LET h == list_first(urbp_list_inbox) IN
           IF invalid_urb(urb[h]) THEN
               /\ status' = maybe_set_status(status, h, EPIPE)
               /\ vhci_urb_giveback(h, "fetch_work", EPIPE)
               /\ fw_pc' = "repeat"
               /\ last' = Outcome("fetch_work", h, NORET, USB_VHCI_WORK_TYPE_NONE,
                                  0, FALSE, h, "inbox")
               /\ UNCHANGED <<urb, nurbs, unlinked, actual_length>>
           ELSE
               /\ urbp_list_inbox' = list_del(urbp_list_inbox, h)
               /\ urbp_list_fetched' = list_add_tail(urbp_list_fetched, h)
               /\ fw_pc' = "idle"
               /\ last' = Outcome("fetch_work", h, SUCCESS,
                                  USB_VHCI_WORK_TYPE_PROCESS_URB, 0, FALSE, 0, "none")
               /\ UNCHANGED <<urb, nurbs, status, unlinked, ep_list, given, gb_by,
                              actual_length, urbp_list_cancel, urbp_list_canceling>>
       ELSE
           /\ fw_pc' = "idle"
           /\ last' = Outcome("fetch_work", 0, ENODATA, USB_VHCI_WORK_TYPE_NONE,
                              0, FALSE, 0, "none")
           /\ UNCHANGED regvars

\* port_sched_offset as the port scan uses it
sched_offset == IF port_sched_offset >= NumPorts THEN 0 ELSE port_sched_offset

\* defect: the scan is not rotated by port_sched_offset
scan_port_fixed(i) == i
\* the 0-based port found at scan position i
scan_port(i) == (i + sched_offset) % NumPorts

\* the scan positions whose port has its update bit set
scan_hits == { i \in 0 .. NumPorts - 1 : (scan_port(i) + 1) \in port_update }

\* the port (0-based) the scan reports: the first hit
first_update_port ==
    scan_port(CHOOSE i \in scan_hits : \A j \in scan_hits : i <= j)

\* defect: port updates are served before cancel requests
fetch_choice_ports_first ==
    IF port_update # {} /\ scan_hits # {} THEN "port"
    ELSE IF ~list_empty(urbp_list_cancel) THEN "cancel"
    ELSE "inbox"
\* the source of work ioc_fetch_work turns to: the order of its tests
fetch_choice ==
    IF ~list_empty(urbp_list_cancel) THEN "cancel"
    ELSE IF port_update # {} /\ scan_hits # {} THEN "port"
    ELSE "inbox"

\* the locked body of ioc_fetch_work, entered after the wait
ioc_fetch_work ==
    /\ Running
    /\ fw_pc = "locked"
    /\ UNCHANGED <<rm_pc, late_submit, rm_log>>
    /\ IF fetch_choice = "cancel" THEN
           LET h == list_first(urbp_list_cancel) IN
           /\ urbp_list_cancel' = list_del(urbp_list_cancel, h)
           /\ urbp_list_canceling' = list_add_tail(urbp_list_canceling, h)
           /\ fw_pc' = "idle"
           /\ last' = Outcome("fetch_work", h, SUCCESS,
                              USB_VHCI_WORK_TYPE_CANCEL_URB, 0, FALSE, 0, "none")
           /\ UNCHANGED <<urb, nurbs, status, unlinked, ep_list, given, gb_by,
                          actual_length, urbp_list_inbox, urbp_list_fetched,
                          portvars, port_log>>
       ELSE IF fetch_choice = "port" THEN
           LET port == first_update_port IN
           /\ port_update' = port_update \ {port + 1}
           /\ port_sched_offset' = port + 1
           /\ port_log' = log_report(port + 1)
           /\ fw_pc' = "idle"
           /\ last' = PortOutcome("fetch_work", SUCCESS,
                                  USB_VHCI_WORK_TYPE_PORT_STAT, port + 1, FALSE,
                                  <<ports[port + 1].port_status,
                                    ports[port + 1].port_change,
                                    ports[port + 1].port_flags>>)
           /\ UNCHANGED <<regvars, ports, rh_state, hw_accessible>>
       ELSE
           fetch_inbox(IF port_update # {} THEN sched_offset ELSE port_sched_offset)

\* ioc_fetch_work back at the label repeat after it gave an invalid urb back
ioc_fetch_work_repeat ==
    /\ Running
    /\ fw_pc = "repeat"
    /\ UNCHANGED <<rm_pc, late_submit, rm_log>>
    /\ fetch_inbox(port_sched_offset)

\* ------------------------------------------------------------- giveback
is_urb_dir_in(u) == IF usb_pipecontrol(u) THEN u.reqIn ELSE usb_pipein(u)

\* The checks ioc_giveback_common makes on the worker's data, in the order
\* of the code; SUCCESS when all pass.  act: buffer_actual, iso_count:
\* packet_count, buf / iso: the pointer is non-null, fault: the user-space
\* access that fails ("none", "iso" for access_ok, "buf" for copy_from_user).
\* defect: a payload passed for an OUT transfer is let through
giveback_check_out_payload(u, act, iso_count, buf, iso, fault) ==
    LET is_in == is_urb_dir_in(u)
        is_iso == usb_pipeisoc(u)
    IN  IF is_iso /\ is_in /\ act # u.tbl THEN ENOBUFS
        ELSE IF is_iso /\ iso_count # u.npk THEN EINVAL
        ELSE IF is_iso /\ iso_count # 0 /\ ~iso THEN EINVAL
        ELSE IF is_iso /\ iso_count # 0 /\ fault = "iso" THEN EFAULT
        ELSE IF ~is_iso /\ act > u.tbl THEN (IF is_in THEN ENOBUFS ELSE EINVAL)
        ELSE IF is_in /\ act # 0 /\ ~buf THEN EINVAL
        ELSE IF is_in /\ act # 0 /\ fault = "buf" THEN EFAULT
        ELSE SUCCESS
giveback_check(u, act, iso_count, buf, iso, fault) ==
    LET is_in == is_urb_dir_in(u)
        is_iso == usb_pipeisoc(u)
    IN  IF is_iso /\ is_in /\ act # u.tbl THEN ENOBUFS
        ELSE IF is_iso /\ iso_count # u.npk THEN EINVAL
        ELSE IF is_iso /\ iso_count # 0 /\ ~iso THEN EINVAL
        ELSE IF is_iso /\ iso_count # 0 /\ fault = "iso" THEN EFAULT
        ELSE IF ~is_iso /\ act > u.tbl THEN (IF is_in THEN ENOBUFS ELSE EINVAL)
        ELSE IF is_in /\ act # 0 /\ ~buf THEN EINVAL
        ELSE IF is_in /\ act # 0 /\ fault = "buf" THEN EFAULT
        ELSE IF ~is_in /\ buf THEN EINVAL
        ELSE SUCCESS

\* the lookup order of ioc_giveback_common and what it makes of the result
\* defect: the inbox is searched as well
giveback_lookup_inbox(h) ==
    IF InList(urbp_list_fetched, h) \/ InList(urbp_list_inbox, h) THEN SUCCESS
    ELSE IF InList(urbp_list_canceling, h) \/ InList(urbp_list_cancel, h) THEN ECANCELED
    ELSE ENOENT
giveback_lookup(h) ==
    IF InList(urbp_list_fetched, h) THEN SUCCESS
    ELSE IF InList(urbp_list_canceling, h) \/ InList(urbp_list_cancel, h) THEN ECANCELED
    ELSE ENOENT

\* the value ioc_giveback_common returns for a handle it found
\* defect: the result of the lookup is returned whatever the checks say
giveback_retval_lookup(found, chk) == found
giveback_retval(found, chk) == IF chk # SUCCESS THEN chk ELSE found

ioc_giveback_common(h, st, act, iso_count, buf, iso, fault) ==
    /\ Running
    /\ UNCHANGED <<portvars, fw_pc, rm_pc, late_submit, rm_log, port_log>>
    /\ LET found == giveback_lookup(h) IN
       IF found = ENOENT THEN
           /\ last' = Outcome("giveback", h, ENOENT, USB_VHCI_WORK_TYPE_NONE,
                              0, FALSE, 0, "none")
           /\ UNCHANGED regvars
       ELSE
           LET chk == giveback_check(urb[h], act, iso_count, buf, iso, fault) IN
           /\ IF chk = SUCCESS THEN
                  /\ actual_length' = [actual_length EXCEPT ![h] = act]
                  /\ status' = maybe_set_status(status, h, st)
              ELSE
                  UNCHANGED <<actual_length, status>>
           /\ vhci_urb_giveback(h, "giveback", st)
           /\ last' = [Outcome("giveback", h, giveback_retval(found, chk),
                               USB_VHCI_WORK_TYPE_NONE, 0, FALSE, h, QueueOf(h))
                          EXCEPT !.data = <<st, act, iso_count, buf, iso, fault>>]
           /\ UNCHANGED <<urb, nurbs, unlinked>>

\* ----------------------------------------------------------- fetch data
\* the result of ioc_fetch_data_common for an urb found in the fetched list
fetch_data_check(u, user_buf, user_len, iso, iso_count, fault) ==
    LET tb_len == IF usb_pipecontrol(u) THEN u.wLength ELSE u.tbl
        is_in == is_urb_dir_in(u)
        is_iso == usb_pipeisoc(u)
    IN  IF is_iso /\ iso_count # u.npk THEN EINVAL
        ELSE IF is_iso /\ iso_count # 0 /\ ~iso THEN EINVAL
        ELSE IF is_iso /\ iso_count # 0 /\ fault = "iso" THEN EFAULT
        ELSE IF ~is_iso /\ (is_in \/ tb_len = 0 \/ ~u.buf) THEN ENODATA
        ELSE IF ~is_in /\ tb_len # 0 /\ (~user_buf \/ user_len < tb_len) THEN EINVAL
        ELSE IF ~is_in /\ tb_len # 0 /\ fault = "buf" THEN EFAULT
        ELSE SUCCESS

\* the lookup order of ioc_fetch_data_common and what it makes of the result
\* defect: the canceling list is not searched
fetch_data_lookup_cancel_only(h) ==
    IF InList(urbp_list_fetched, h) THEN SUCCESS
    ELSE IF InList(urbp_list_cancel, h) THEN ECANCELED
    ELSE ENOENT
fetch_data_lookup(h) ==
    IF InList(urbp_list_fetched, h) THEN SUCCESS
    ELSE IF InList(urbp_list_cancel, h) \/ InList(urbp_list_canceling, h) THEN ECANCELED
    ELSE ENOENT

ioc_fetch_data_common(h, user_buf, user_len, iso, iso_count, fault) ==
    /\ Running
    /\ UNCHANGED <<portvars, fw_pc, rm_pc, late_submit, rm_log, port_log>>
    /\ IF fetch_data_lookup(h) = SUCCESS THEN
           /\ last' = Outcome("fetch_data", h,
                              fetch_data_check(urb[h], user_buf, user_len, iso,
                                               iso_count, fault),
                              USB_VHCI_WORK_TYPE_NONE, 0, FALSE, 0, "none")
           /\ UNCHANGED regvars
       ELSE IF fetch_data_lookup(h) = ECANCELED THEN
           /\ vhci_urb_giveback(h, "fetch_data", NORET)
           /\ last' = Outcome("fetch_data", h, ECANCELED, USB_VHCI_WORK_TYPE_NONE,
                              0, FALSE, h, QueueOf(h))
           /\ UNCHANGED <<urb, nurbs, status, unlinked, actual_length>>
       ELSE
           /\ last' = Outcome("fetch_data", h, ENOENT, USB_VHCI_WORK_TYPE_NONE,
                              0, FALSE, 0, "none")
           /\ UNCHANGED regvars

\* --------------------------------------------------------------- remove
\* the order in which vhci_hcd_remove drains the lists
\* defect: the in-service transfers are drained before the pending ones
drain_order_swapped == <<"fetched", "inbox", "cancel", "canceling">>
drain_order == <<"inbox", "fetched", "cancel", "canceling">>

ListByName(n) ==
    IF n = "inbox" THEN urbp_list_inbox
    ELSE IF n = "fetched" THEN urbp_list_fetched
    ELSE IF n = "cancel" THEN urbp_list_cancel
    ELSE urbp_list_canceling

\* the loops of vhci_hcd_remove still to run, as positions of drain_order
drain_rest ==
    IF rm_pc = "idle" THEN 1 .. 4
    ELSE { i \in 1 .. 4 : \E j \in 1 .. i : drain_order[j] = rm_pc }

\* One locked stretch of vhci_hcd_remove: up to and including the next
\* giveback (which drops the lock), or to the end of the function.
vhci_hcd_remove ==
    /\ Running
    /\ UNCHANGED <<portvars, fw_pc, late_submit, port_log>>
    /\ LET todo == { i \in drain_rest : ~list_empty(ListByName(drain_order[i])) } IN
       IF todo = {} THEN
           /\ rm_pc' = "done"
           /\ last' = Outcome("remove", 0, SUCCESS, USB_VHCI_WORK_TYPE_NONE,
                              0, FALSE, 0, "none")
           /\ UNCHANGED <<regvars, rm_log>>
       ELSE
           LET i == CHOOSE x \in todo : \A y \in todo : x <= y
               h == Head(ListByName(drain_order[i]))
           IN  /\ status' = maybe_set_status(status, h, ESHUTDOWN)
               /\ vhci_urb_giveback(h, "remove", ESHUTDOWN)
               /\ rm_pc' = drain_order[i]
               /\ rm_log' = Append(rm_log, QueueOf(h))
               /\ last' = Outcome("remove", h, NORET, USB_VHCI_WORK_TYPE_NONE,
                                  0, FALSE, h, QueueOf(h))
               /\ UNCHANGED <<urb, nurbs, unlinked, actual_length>>

\* ------------------------------------------------------ the specification
\* a copy from user space can fault only where a pointer was passed
GivebackArgs ==
    { a \in [st : StatusArgs, act : 0 .. MaxLen + 1, iso_count : 0 .. 1,
             buf : BOOLEAN, iso : BOOLEAN, fault : {"none", "iso", "buf"}] :
        /\ a.fault = "iso" => a.iso
        /\ a.fault = "buf" => a.buf }
\* the worker's well-formed answers and one that fails validation
CoreGivebackArgs ==
    { a \in GivebackArgs :
        a.iso_count = 0 /\ ~a.iso /\ a.fault = "none" /\ a.act = (IF a.buf THEN 1 ELSE 0) }
FetchDataArgs ==
    { a \in [user_buf : BOOLEAN, user_len : 0 .. MaxLen, iso : BOOLEAN,
             iso_count : 0 .. 1, fault : {"none", "iso", "buf"}] :
        /\ a.fault = "iso" => a.iso
        /\ a.fault = "buf" => a.user_buf }
CoreFetchDataArgs ==
    { a \in FetchDataArgs :
        a.user_buf /\ a.user_len = MaxLen /\ ~a.iso /\ a.iso_count = 0 /\ a.fault = "none" }

\* Transfers: every operation of the transfer registry, the dispatcher's
\* transfer part and shutdown.  Shutdown is synchronised with submission: no
\* urb is enqueued once vhci_hcd_remove has begun.
Next ==
    \/ /\ rm_pc = "idle"
       /\ \E u \in CoreUrbs : vhci_urb_enqueue(u, "ok")
    \/ \E h \in Handles, s \in UnlinkStatus : vhci_urb_dequeue(h, s)
    \/ \E w \in {<<0, FALSE>>, <<1, TRUE>>} : ioc_fetch_work_wait(w[1], w[2])
    \/ ioc_fetch_work
    \/ ioc_fetch_work_repeat
    \/ \E h \in Handles, a \in CoreGivebackArgs :
           ioc_giveback_common(h, a.st, a.act, a.iso_count, a.buf, a.iso, a.fault)
    \/ \E h \in Handles, a \in CoreFetchDataArgs :
           ioc_fetch_data_common(h, a.user_buf, a.user_len, a.iso, a.iso_count, a.fault)
    \/ vhci_hcd_remove

Spec == Init /\ [][Next]_vars

\* Descriptors and answers: a single transfer ranges over every descriptor,
\* the worker's answers and requests over every argument combination.
NextData ==
    \/ /\ nurbs = 0
       /\ \E u \in AllUrbs, env \in {"ok", "nomem", "nolink"} : vhci_urb_enqueue(u, env)
    \/ \E h \in Handles, s \in UnlinkStatus : vhci_urb_dequeue(h, s)
    \/ ioc_fetch_work_wait(0, FALSE)
    \/ ioc_fetch_work
    \/ ioc_fetch_work_repeat
    \/ \E h \in 1 .. nurbs + 1, a \in GivebackArgs :
           ioc_giveback_common(h, a.st, a.act, a.iso_count, a.buf, a.iso, a.fault)
    \/ \E h \in 1 .. nurbs + 1, a \in FetchDataArgs :
           ioc_fetch_data_common(h, a.user_buf, a.user_len, a.iso, a.iso_count, a.fault)

SpecData == Init /\ [][NextData]_vars

\* Dispatch: transfers, cancel requests and the updates of port 1 compete
\* for the worker's fetch.
DispatchHubRequests ==
    { <<"SetPortFeature", USB_PORT_FEAT_POWER, 1, 0>>,
      <<"ClearPortFeature", USB_PORT_FEAT_POWER, 1, 0>> }

NextDispatch ==
    \/ \E u \in CoreUrbs : vhci_urb_enqueue(u, "ok")
    \/ \E h \in Handles, s \in UnlinkStatus : vhci_urb_dequeue(h, s)
    \/ \E t \in {-1, 0, 1}, i \in BOOLEAN : ioc_fetch_work_wait(t, i)
    \/ ioc_fetch_work
    \/ ioc_fetch_work_repeat
    \/ \E h \in Handles, a \in CoreGivebackArgs :
           ioc_giveback_common(h, a.st, a.act, a.iso_count, a.buf, a.iso, a.fault)
    \/ \E r \in DispatchHubRequests : vhci_hub_control(r[1], r[2], r[3], r[4])

SpecDispatch == Init /\ [][NextDispatch]_vars

\* Round robin: every port raises updates; no transfers.
RoundRobinHubRequests ==
    { <<t, USB_PORT_FEAT_POWER, p, 0>> :
        t \in {"SetPortFeature", "ClearPortFeature"}, p \in Ports }

NextRoundRobin ==
    \/ \E t \in {0, 1} : ioc_fetch_work_wait(t, FALSE)
    \/ ioc_fetch_work
    \/ \E r \in RoundRobinHubRequests : vhci_hub_control(r[1], r[2], r[3], r[4])

SpecRoundRobin == Init /\ [][NextRoundRobin]_vars

\* Root hub: every hub request on port 1 (and the malformed ones), every
\* port event the worker may report for it (the status bits of a report
\* sit at the positions of the change bits they belong to), bus suspend
\* and resume; no transfers and no worker fetching the updates.
HubFeatures ==
    {USB_PORT_FEAT_CONNECTION, USB_PORT_FEAT_ENABLE, USB_PORT_FEAT_SUSPEND,
     USB_PORT_FEAT_OVER_CURRENT, USB_PORT_FEAT_RESET, USB_PORT_FEAT_POWER,
     USB_PORT_FEAT_LOWSPEED, USB_PORT_FEAT_INDICATOR, USB_PORT_FEAT_INDICATOR + 1}
    \cup ChangeFeatures

HubRequests ==
    { <<t, f, 1, 0>> : t \in PortRequests, f \in HubFeatures }
    \cup { <<t, USB_PORT_FEAT_POWER, i, l>> : t \in PortRequests,
                                           i \in {0, NumPorts + 1}, l \in {0} }
    \cup { <<"SetPortFeature", USB_PORT_FEAT_POWER, 1, 1>>,
           <<"SetHubFeature", C_HUB_LOCAL_POWER, 0, 0>>,
           <<"ClearHubFeature", C_HUB_OVER_CURRENT + 1, 0, 0>>,
           <<"GetHubDescriptor", 0, 0, 0>>,
           <<"GetHubStatus", 0, 0, 4>>,
           <<"GetPortStatus", 0, 1, 4>>,
           <<"GetPortStatus", 0, 1, 0>>,
           <<"Unknown", 0, 0, 0>> }

PortStatInputs ==
    UNION { { <<1, {}, c>>, <<1, c, c>> } : c \in PortStatChanges }
    \cup { <<1, st, USB_PORT_STAT_C_RESET>> :
             st \in {USB_PORT_STAT_ENABLE, USB_PORT_STAT_ENABLE \cup USB_PORT_STAT_RESET} }
    \cup { <<0, {}, USB_PORT_STAT_C_CONNECTION>>,
           <<1, {}, {}>>,
           <<1, {}, USB_PORT_STAT_C_CONNECTION \cup USB_PORT_STAT_C_ENABLE>> }

NextHub ==
    \/ \E r \in HubRequests : vhci_hub_control(r[1], r[2], r[3], r[4])
    \/ \E a \in PortStatInputs : ioc_port_stat(a[1], a[2], a[3])
    \/ vhci_hub_status
    \/ vhci_bus_suspend
    \/ vhci_bus_resume

SpecHub == Init /\ [][NextHub]_vars

\* Port reset: the requests and port events around a reset of port 1
\* (connection at every speed, overcurrent, suspend and resume, power), and
\* the worker fetching the port updates; no transfers.
ResetHubRequests ==
    { <<"SetPortFeature", f, 1, 0>> :
        f \in {USB_PORT_FEAT_RESET, USB_PORT_FEAT_SUSPEND, USB_PORT_FEAT_POWER} }
    \cup { <<"ClearPortFeature", f, 1, 0>> :
              f \in {USB_PORT_FEAT_SUSPEND, USB_PORT_FEAT_POWER, USB_PORT_FEAT_ENABLE,
                     USB_PORT_FEAT_C_RESET} }
    \cup { <<"SetPortFeature", USB_PORT_FEAT_C_RESET, 1, 0>> }

ResetPortStatInputs ==
    { <<1, st, USB_PORT_STAT_C_CONNECTION>> :
        st \in {{}, USB_PORT_STAT_CONNECTION,
                USB_PORT_STAT_CONNECTION \cup USB_PORT_STAT_LOW_SPEED,
                USB_PORT_STAT_CONNECTION \cup USB_PORT_STAT_HIGH_SPEED} }
    \cup { <<1, st, USB_PORT_STAT_C_OVERCURRENT>> : st \in {{}, USB_PORT_STAT_OVERCURRENT} }
    \cup { <<1, USB_PORT_STAT_ENABLE, USB_PORT_STAT_C_RESET>>,
           <<1, {}, USB_PORT_STAT_C_SUSPEND>>,
           <<1, {}, USB_PORT_STAT_C_ENABLE>>,
           <<1, {}, USB_PORT_STAT_C_RESET \cup USB_PORT_STAT_C_ENABLE>>,
           <<1, {}, {}>>,
           <<1, {}, USB_PORT_STAT_C_CONNECTION \cup USB_PORT_STAT_C_ENABLE>>,
           <<0, {}, USB_PORT_STAT_C_CONNECTION>>,
           <<NumPorts + 1, {}, USB_PORT_STAT_C_CONNECTION>> }

NextReset ==
    \/ \E r \in ResetHubRequests : vhci_hub_control(r[1], r[2], r[3], r[4])
    \/ \E a \in ResetPortStatInputs : ioc_port_stat(a[1], a[2], a[3])
    \/ ioc_fetch_work_wait(0, FALSE)
    \/ ioc_fetch_work

SpecReset == Init /\ [][NextReset]_vars

\* Ports: the requests and port events of SpecReset together with the
\* suspension and resumption of the root hub, and the worker's fetches.
\* The worker also reports connections with both speed bits set and with a
\* speed bit but no connection bit.
PortsPortStatInputs ==
    ResetPortStatInputs
    \cup { <<1, st, USB_PORT_STAT_C_CONNECTION>> :
             st \in {USB_PORT_STAT_CONNECTION \cup USB_PORT_STAT_LOW_SPEED
                        \cup USB_PORT_STAT_HIGH_SPEED,
                     USB_PORT_STAT_LOW_SPEED, USB_PORT_STAT_HIGH_SPEED} }

NextPorts ==
    \/ \E r \in ResetHubRequests : vhci_hub_control(r[1], r[2], r[3], r[4])
    \/ \E a \in PortsPortStatInputs : ioc_port_stat(a[1], a[2], a[3])
    \/ vhci_bus_suspend
    \/ vhci_bus_resume
    \/ ioc_fetch_work_wait(0, FALSE)
    \/ ioc_fetch_work

SpecPorts == Init /\ [][NextPorts]_vars

\* Hub control: every hub request on port 1 (and the malformed ones) in
\* every power state of the controller; the worker connects a device and
\* completes its reset; no transfers.
ControlPortStatInputs ==
    { <<1, USB_PORT_STAT_CONNECTION, USB_PORT_STAT_C_CONNECTION>>,
      <<1, USB_PORT_STAT_ENABLE, USB_PORT_STAT_C_RESET>> }

NextControl ==
    \/ \E r \in HubRequests : vhci_hub_control(r[1], r[2], r[3], r[4])
    \/ \E a \in ControlPortStatInputs : ioc_port_stat(a[1], a[2], a[3])
    \/ vhci_bus_suspend
    \/ vhci_bus_resume
    \/ vhci_hcd_suspend
    \/ vhci_hcd_resume
    \/ vhci_hub_status

SpecControl == Init /\ [][NextControl]_vars

\* Give-back callbacks: vhci_urb_giveback calls usb_hcd_giveback_urb, which
\* runs the owner's completion handler, between spin_unlock and spin_lock.
\* The handler of the urb given back by the latest step may submit and
\* cancel urbs; vhci_urb_enqueue and vhci_urb_dequeue take vhc->lock.
\* defect: the lock is not dropped around the call
lock_during_giveback_held == "held"
lock_during_giveback == "released"

callback_enqueue(u) ==
    /\ last.gb # 0
    /\ lock_during_giveback = "released"
    /\ vhci_urb_enqueue(u, "ok")

callback_dequeue(h, s) ==
    /\ last.gb # 0
    /\ lock_during_giveback = "released"
    /\ vhci_urb_dequeue(h, s)

\* Callbacks: transfers are submitted before shutdown begins or from a
\* completion handler at any time; the worker only fetches.
NextCallback ==
    \/ /\ rm_pc = "idle"
       /\ \E u \in CoreUrbs : vhci_urb_enqueue(u, "ok")
    \/ \E u \in CoreUrbs : callback_enqueue(u)
    \/ /\ rm_pc = "idle"
       /\ \E h \in Handles, s \in UnlinkStatus : vhci_urb_dequeue(h, s)
    \/ \E h \in Handles, s \in UnlinkStatus : callback_dequeue(h, s)
    \/ ioc_fetch_work_wait(0, FALSE)
    \/ ioc_fetch_work
    \/ ioc_fetch_work_repeat
    \/ vhci_hcd_remove

SpecCallback == Init /\ [][NextCallback]_vars

\* Validation: the first transfer submitted ranges over every descriptor,
\* later ones over CoreUrbs and a descriptor vhci_urb_enqueue refuses; the
\* worker only fetches, the owner may cancel.
ValidateUrbs == CoreUrbs \cup {UrbRec("BULK", FALSE, 1, FALSE, FALSE, FALSE, 0, 0)}

NextValidate ==
    \/ \E u \in (IF nurbs = 0 THEN AllUrbs ELSE ValidateUrbs),
          env \in {"ok", "nomem", "nolink"} : vhci_urb_enqueue(u, env)
    \/ \E h \in Handles, s \in UnlinkStatus : vhci_urb_dequeue(h, s)
    \/ ioc_fetch_work_wait(0, FALSE)
    \/ ioc_fetch_work
    \/ ioc_fetch_work_repeat

SpecValidate == Init /\ [][NextValidate]_vars

\* Worker: transfers, hub requests that raise port updates, and a worker
\* that keeps serving the device.  Two urbs are outstanding at most, a
\* well-formed and a malformed one in either order.  The worker calls
\* ioc_fetch_work again whenever a call has returned, and answers the urbs
\* it was handed with a giveback that the device accepts.
LiveHubRequests ==
    { <<"SetPortFeature", USB_PORT_FEAT_POWER, 1, 0>>,
      <<"ClearPortFeature", USB_PORT_FEAT_POWER, 1, 0>> }

\* the worker's answer for h: a giveback request that finishes h
WorkerAnswer(h) ==
    /\ \E a \in CoreGivebackArgs :
           ioc_giveback_common(h, a.st, a.act, a.iso_count, a.buf, a.iso, a.fault)
    /\ given'[h] = 1

NextLive ==
    \/ /\ rm_pc = "idle"
       /\ \E u \in CoreUrbs : (nurbs = 0 \/ urb[1] # u) /\ vhci_urb_enqueue(u, "ok")
    \/ \E h \in Handles, s \in UnlinkStatus : vhci_urb_dequeue(h, s)
    \/ ioc_fetch_work_wait(0, FALSE)
    \/ ioc_fetch_work
    \/ ioc_fetch_work_repeat
    \/ \E h \in Handles : WorkerAnswer(h)
    \/ \E h \in Handles, a \in CoreFetchDataArgs :
           ioc_fetch_data_common(h, a.user_buf, a.user_len, a.iso, a.iso_count, a.fault)
    \/ vhci_hcd_remove
    \/ \E r \in LiveHubRequests : vhci_hub_control(r[1], r[2], r[3], r[4])

WorkerFairness ==
    /\ WF_vars(ioc_fetch_work_wait(0, FALSE))
    /\ WF_vars(ioc_fetch_work)
    /\ WF_vars(ioc_fetch_work_repeat)
    /\ \A h \in Handles : WF_vars(WorkerAnswer(h))

SpecLive == Init /\ [][NextLive]_vars /\ WorkerFairness

\* =================================================================
\* Properties
\* =================================================================

\* number of places handle h occupies in list l
Occurrences(l, h) == Cardinality({ i \in 1 .. Len(l) : l[i] = h })

\* number of places handle h occupies in the four lists together
Places(h) ==
    Occurrences(urbp_list_inbox, h) + Occurrences(urbp_list_fetched, h)
    + Occurrences(urbp_list_cancel, h) + Occurrences(urbp_list_canceling, h)

\* the handles of the transfers submitted so far
Submitted == 1 .. nurbs

\* the cancel statuses an owner may observe
Canceled == UnlinkStatus

\* ----------------------------------------------------------------- C1
\* C1: usb_hcd_giveback_urb is called at most once for every transfer, and
\* exactly once for every submitted transfer that has left the lists: no
\* interleaving of cancel, completion, payload fetch, rejection by
\* ioc_fetch_work and shutdown gives a transfer back twice or drops it
\* without a give-back.
C1_GivebackOnce ==
    \A h \in Handles :
        /\ given[h] <= 1
        /\ (given[h] = 1) <=> (h \in Submitted /\ Places(h) = 0)

\* a transfer that was fetched, cancelled and completed, and for which the
\* worker then tries a second completion
C1_Witness ==
    \E h \in Submitted :
        /\ given[h] = 1
        /\ gb_by[h][1] = "giveback"
        /\ gb_by[h][3] \in {"cancel", "canceling"}
        /\ last.op \in {"giveback", "fetch_data"}
        /\ last.handle = h
        /\ last.ret = ENOENT

\* ----------------------------------------------------------------- C2
\* C2: every outstanding transfer (submitted, not yet given back) occupies
\* exactly one place in exactly one of the four lists, and a transfer that
\* has been given back is in none of them.
C2_OneQueue ==
    \A h \in Handles :
        /\ (h \in Submitted /\ given[h] = 0) => Places(h) = 1
        /\ given[h] > 0 => Places(h) = 0
        /\ h \notin Submitted => Places(h) = 0

\* two outstanding transfers that have moved through the lists, one now
\* in the cancel list and one in the canceling list
C2_Witness ==
    /\ urbp_list_cancel # <<>>
    /\ urbp_list_canceling # <<>>
    /\ rm_pc = "idle"

\* ---------------------------------------------------------------- C10
\* the position of a list in the order the spec gives for shutdown
ShutdownRank(q) ==
    IF q = "inbox" THEN 1
    ELSE IF q = "fetched" THEN 2
    ELSE IF q = "cancel" THEN 3
    ELSE IF q = "canceling" THEN 4
    ELSE 0

\* C10: vhci_hcd_remove gives the transfers back in queue order (inbox,
\* fetched, cancel, canceling), and once it has returned with no urb
\* submitted after it began, all four lists are empty and every submitted
\* transfer has been given back exactly once.
C10_ShutdownDrains ==
    /\ \A i, j \in 1 .. Len(rm_log) :
           i < j => /\ ShutdownRank(rm_log[i]) # 0
                    /\ ShutdownRank(rm_log[i]) <= ShutdownRank(rm_log[j])
    /\ (rm_pc = "done" /\ ~late_submit) =>
           /\ urbp_list_inbox = <<>>
           /\ urbp_list_fetched = <<>>
           /\ urbp_list_cancel = <<>>
           /\ urbp_list_canceling = <<>>
           /\ \A h \in Submitted : given[h] = 1

\* shutdown has returned after draining transfers from two different lists
C10_Witness ==
    /\ rm_pc = "done"
    /\ ~late_submit
    /\ Len(rm_log) >= 2
    /\ rm_log[1] # rm_log[Len(rm_log)]
    /\ \A h \in Submitted : gb_by[h][1] = "remove"

\* ----------------------------------------------------------------- C3
\* the latest step is a completion for a handle that ioc_giveback_common
\* found in the cancel or the canceling list
CompletionOfCanceled ==
    /\ last.op = "giveback"
    /\ last.gbq \in {"cancel", "canceling"}

\* the worker's data of the latest completion are well formed for the
\* transfer they answer: the isochronous packet count matches, an IN
\* isochronous transfer is filled completely, the actual length fits the
\* buffer, IN data come with a readable payload, OUT answers carry none
WellFormedAnswer ==
    LET u == urb[last.handle]
        act == last.data[2]
        iso_count == last.data[3]
        buf == last.data[4]
        iso == last.data[5]
        fault == last.data[6]
        is_in == IF u.type = "CONTROL" THEN u.reqIn ELSE u.in
    IN  /\ u.type = "ISO" =>
            /\ iso_count = u.npk
            /\ is_in => act = u.tbl
            /\ iso_count # 0 => (iso /\ fault # "iso")
        /\ u.type # "ISO" => act <= u.tbl
        /\ (is_in /\ act # 0) => (buf /\ fault # "buf")
        /\ ~is_in => ~buf

\* C3 as stated: a completion for a handle in the cancel or canceling list
\* returns -ECANCELED whatever status, length, payload and isochronous
\* arguments the worker passes.
C3_AlwaysCanceled ==
    CompletionOfCanceled => last.ret = ECANCELED

\* C3: a completion for a handle in the cancel or canceling list gives the
\* transfer back in every case; it returns -ECANCELED for every status when
\* the worker's data are well formed, and the validation error (-ENOBUFS,
\* -EINVAL or -EFAULT) instead of -ECANCELED when they are not.
C3_CanceledUnlessInvalid ==
    CompletionOfCanceled =>
        /\ given[last.handle] = 1
        /\ Places(last.handle) = 0
        /\ IF WellFormedAnswer
           THEN last.ret = ECANCELED
           ELSE last.ret \in {ENOBUFS, EINVAL, EFAULT}

\* a cancelled IN transfer completed with an error status and well-formed,
\* non-empty data
C3_Witness ==
    /\ CompletionOfCanceled
    /\ last.data[1] = EPROTO
    /\ last.ret = ECANCELED
    /\ urb[last.handle].in
    /\ last.data[2] > 0

\* ----------------------------------------------------------------- C4
\* the transfer was fetched and then completed by the worker with status
\* success, and the owner cancelled it, before the completion or as the
\* latest step after it
FetchedCanceledCompleted(h) ==
    /\ gb_by[h][1] = "giveback"
    /\ gb_by[h][2] = SUCCESS
    /\ \/ gb_by[h][3] \in {"cancel", "canceling"}
       \/ (last.op = "dequeue" /\ last.handle = h)

Malformed(u) ==
    LET len == IF u.type = "CONTROL" THEN u.wLength ELSE u.tbl
        dir_in == IF u.type = "CONTROL" THEN u.reqIn ELSE u.in
    IN  \/ (u.type = "CONTROL" /\ (~u.setup \/ u.wLength > u.tbl))
        \/ (dir_in /\ (len = 0 \/ ~u.buf))
        \/ (~dir_in /\ len # 0 /\ ~u.buf)

\* C8: a malformed pending transfer is never in the fetched list (nor in a
\* list only fetched transfers reach) and never returned as a PROCESS_URB
\* unit; ioc_fetch_work gives it back from the inbox itself and continues
\* at the head of the inbox, and it gives back nothing but malformed
\* transfers.
C8_MalformedNeverFetched ==
    /\ \A h \in Submitted :
           Malformed(urb[h]) =>
               /\ QueueOf(h) \in {"inbox", "none"}
               /\ gb_by[h][3] \in {"inbox", "none"}
    /\ last.work = USB_VHCI_WORK_TYPE_PROCESS_URB => ~Malformed(urb[last.handle])
    /\ \A h \in Submitted :
           gb_by[h][1] = "fetch_work" => (Malformed(urb[h]) /\ gb_by[h][3] = "inbox")
    /\ (last.op = "fetch_work" /\ last.gb # 0) =>
           /\ Malformed(urb[last.gb])
           /\ last.ret = NORET
           /\ fw_pc = "repeat"

\* ioc_fetch_work rejected the malformed first transfer and returned the
\* second one as PROCESS_URB
C8_Witness ==
    /\ nurbs >= 2
    /\ gb_by[1][1] = "fetch_work"
    /\ last.op = "fetch_work"
    /\ last.work = USB_VHCI_WORK_TYPE_PROCESS_URB
    /\ last.handle = 2
    /\ InList(urbp_list_fetched, 2)

\* ----------------------------------------------------------------- C9
\* C9: the owner of a transfer that ioc_fetch_work rejected as malformed
\* observes the status -EPIPE (Stall).
C9_RejectedWithStall ==
    \A h \in Submitted :
        gb_by[h][1] = "fetch_work" => (GivebackStatus(h) = EPIPE /\ OwnerStatus(h) = EPIPE)

\* ----------------------------------------------------------------- C5
\* the step is the locked body of ioc_fetch_work, entered after the wait
FetchDecides == fw_pc = "locked" /\ fw_pc' # "locked"

\* the step is ioc_fetch_work back at its label repeat
FetchRepeats ==
    /\ fw_pc = "repeat"
    /\ last'.op = "fetch_work"
    /\ (last' # last \/ fw_pc' # fw_pc)

\* the step on which a call of ioc_fetch_work returns a result
FetchReturns ==
    /\ fw_pc \in {"locked", "repeat"}
    /\ fw_pc' = "idle"
    /\ last'.op = "fetch_work"

\* C5 as stated: whenever the cancel list is non-empty a fetch returns a
\* CANCEL_URB unit for its head, otherwise whenever a port has a pending
\* update it returns a PORT_STAT unit, and only otherwise a PROCESS_URB
\* unit for the head of the inbox.
C5_StrictPriority ==
    [][FetchReturns =>
          IF urbp_list_cancel # <<>>
          THEN /\ last'.work = USB_VHCI_WORK_TYPE_CANCEL_URB
               /\ last'.handle = Head(urbp_list_cancel)
          ELSE IF port_update # {}
          THEN /\ last'.work = USB_VHCI_WORK_TYPE_PORT_STAT
               /\ last'.port \in port_update
          ELSE /\ last'.work \in {USB_VHCI_WORK_TYPE_PROCESS_URB, USB_VHCI_WORK_TYPE_NONE}
               /\ last'.work = USB_VHCI_WORK_TYPE_PROCESS_URB
                      => last'.handle = Head(urbp_list_inbox)]_vars

\* C5: ioc_fetch_work decides by strict priority on the state it finds when
\* it takes the lock after the wait: the head of the cancel list if there
\* is one, else a port with a pending update, else the head of the inbox.
\* Once it has rejected a malformed transfer it looks at the inbox only,
\* whatever cancel request or port update has arrived meanwhile.
C5_PriorityAtEntry ==
    [][/\ FetchDecides =>
             IF urbp_list_cancel # <<>>
             THEN /\ last'.work = USB_VHCI_WORK_TYPE_CANCEL_URB
                  /\ last'.handle = Head(urbp_list_cancel)
                  /\ fw_pc' = "idle"
             ELSE IF port_update # {}
             THEN /\ last'.work = USB_VHCI_WORK_TYPE_PORT_STAT
                  /\ last'.port \in port_update
                  /\ fw_pc' = "idle"
             ELSE /\ urbp_list_inbox # <<>> => last'.handle = Head(urbp_list_inbox)
                  /\ last'.work =
                         IF urbp_list_inbox # <<>> /\ ~Malformed(urb[Head(urbp_list_inbox)])
                         THEN USB_VHCI_WORK_TYPE_PROCESS_URB
                         ELSE USB_VHCI_WORK_TYPE_NONE
       /\ FetchRepeats =>
             /\ last'.work \in {USB_VHCI_WORK_TYPE_PROCESS_URB, USB_VHCI_WORK_TYPE_NONE}
             /\ urbp_list_inbox # <<>> => last'.handle = Head(urbp_list_inbox)
             /\ UNCHANGED <<urbp_list_cancel, urbp_list_canceling, port_update>>]_vars

\* a cancel request, a port update and a pending transfer are queued
\* together while a fetch is about to decide
C5_Witness ==
    /\ fw_pc = "locked"
    /\ urbp_list_cancel # <<>>
    /\ port_update # {}
    /\ urbp_list_inbox # <<>>

\* ----------------------------------------------------------------- C6
\* C6: once every port has a pending update, the PORT_STAT units of the
\* following fetches name the ports in cyclic order, starting after the
\* port reported last before (at port 1 if none was), each port once, and
\* each report clears the update bit of its port.
C6_RoundRobin ==
    port_log.armed =>
        /\ Len(port_log.seq) <= NumPorts
        /\ \A i \in 1 .. Len(port_log.seq) :
               port_log.seq[i] = ((port_log.from + i - 1) % NumPorts) + 1
        /\ port_update = Ports \ { port_log.seq[i] : i \in 1 .. Len(port_log.seq) }

\* a full round that started after port 1 had been reported
C6_Witness ==
    /\ port_log.armed
    /\ port_log.from = 1
    /\ Len(port_log.seq) = NumPorts
    /\ port_update = {}

\* ----------------------------------------------------------------- C7
\* the change bits of port p that the step clears
ClearedBits(p) == ports[p].port_change \ ports'[p].port_change

\* the step is a successful ClearPortFeature(f) request for port p
ClearsFeature(p, f) ==
    /\ last'.op = "ClearPortFeature"
    /\ last'.port = p
    /\ last'.ret = SUCCESS
    /\ last'.data = <<f>>

\* C7 as stated: a change bit, once set, is cleared by nothing but the
\* ClearPortFeature request for the matching C_* feature.
C7_OnlyAckClears ==
    [][\A p \in Ports : \A b \in ClearedBits(p) :
          ClearsFeature(p, b + USB_PORT_FEAT_C_CONNECTION)]_vars

\* C7: a change bit, once set, is cleared only by the ClearPortFeature
\* request for the matching C_* feature, by ClearPortFeature(PORT_POWER) on
\* a powered port (every change bit but C_OVERCURRENT) and by
\* ClearPortFeature(PORT_ENABLE) on an enabled port (C_ENABLE, C_SUSPEND);
\* no other request, port event or bus transition clears one.
C7_ChangeBitsPersist ==
    [][\A p \in Ports : \A b \in ClearedBits(p) :
          \/ ClearsFeature(p, b + USB_PORT_FEAT_C_CONNECTION)
          \/ /\ ClearsFeature(p, USB_PORT_FEAT_POWER)
             /\ ports[p].port_status \cap USB_PORT_STAT_POWER # {}
             /\ {b} # USB_PORT_STAT_C_OVERCURRENT
          \/ /\ ClearsFeature(p, USB_PORT_FEAT_ENABLE)
             /\ ports[p].port_status \cap USB_PORT_STAT_ENABLE # {}
             /\ {b} \in {USB_PORT_STAT_C_ENABLE, USB_PORT_STAT_C_SUSPEND}]_vars

\* a port event has just been accepted for a port whose change bits from
\* earlier events are all still set
C7_Witness ==
    /\ last.op = "port_stat"
    /\ last.ret = SUCCESS
    /\ last.data[2] = USB_PORT_STAT_C_RESET
    /\ ports[1].port_change =
           USB_PORT_STAT_C_CONNECTION \cup USB_PORT_STAT_C_OVERCURRENT
           \cup USB_PORT_STAT_C_RESET

\* ---------------------------------------------------------------- C11
\* C11: every transfer that vhci_hcd_remove gives back reaches its owner
\* with the status -ESHUTDOWN.
C11_ShutdownStatus ==
    \A h \in Submitted : gb_by[h][1] = "remove" => OwnerStatus(h) = ESHUTDOWN

\* ------------------------------------------------------- cancel steps
\* the step is a call of vhci_urb_dequeue for handle h (the wait of
\* ioc_fetch_work is the one step that leaves last as it was)
DequeueStep(h) ==
    /\ last'.op = "dequeue"
    /\ last'.handle = h
    /\ fw_pc' = fw_pc

\* the result the spec calls NotFound, as the worker's calls return it
NotFound == ENOENT

\* ---------------------------------------------------------------- C12
\* C12: vhci_urb_dequeue for a transfer in the inbox takes it off the
\* inbox and gives it back within the call, its owner observes the cancel
\* status, the other lists stay as they are; and ioc_fetch_work never
\* returns such a transfer, neither as PROCESS_URB nor as CANCEL_URB.
C12_CancelPending ==
    [][/\ \A h \in Submitted :
             (DequeueStep(h) /\ Occurrences(urbp_list_inbox, h) = 1) =>
                 /\ last'.ret = SUCCESS
                 /\ given'[h] = given[h] + 1
                 /\ given'[h] = 1
                 /\ urbp_list_inbox' = SelectSeq(urbp_list_inbox, LAMBDA x : x # h)
                 /\ UNCHANGED <<urbp_list_fetched, urbp_list_cancel, urbp_list_canceling>>
                 /\ OwnerStatus(h)' \in Canceled
                 /\ gb_by'[h][1] = "dequeue"
       /\ \A h \in Submitted :
             gb_by'[h][1] = "dequeue" =>
                 ~ (/\ last'.work \in {USB_VHCI_WORK_TYPE_PROCESS_URB,
                                       USB_VHCI_WORK_TYPE_CANCEL_URB}
                    /\ last'.handle = h)
       /\ \A h \in Submitted :
             (/\ last'.work \in {USB_VHCI_WORK_TYPE_PROCESS_URB,
                                 USB_VHCI_WORK_TYPE_CANCEL_URB}
              /\ last'.handle = h
              /\ last' # last) => (given[h] = 0 /\ gb_by[h][1] = "none")]_vars

\* the second of two pending transfers has just been cancelled
C12_Witness ==
    /\ last.op = "dequeue"
    /\ last.gb = 2
    /\ last.gbq = "inbox"
    /\ given[2] = 1
    /\ urbp_list_inbox = <<1>>

\* ---------------------------------------------------------------- C13
\* C13: vhci_urb_dequeue for a transfer in the fetched list moves it to the
\* tail of the cancel list, wakes the worker and gives nothing back; a
\* transfer that has been in the cancel or canceling list is given back only
\* by ioc_giveback_common, ioc_fetch_data_common or vhci_hcd_remove.
C13_CancelInService ==
    [][/\ \A h \in Submitted :
             (DequeueStep(h) /\ Occurrences(urbp_list_fetched, h) = 1) =>
                 /\ last'.ret = SUCCESS
                 /\ last'.wake
                 /\ urbp_list_cancel' = Append(urbp_list_cancel, h)
                 /\ urbp_list_fetched' = SelectSeq(urbp_list_fetched, LAMBDA x : x # h)
                 /\ UNCHANGED <<urbp_list_inbox, urbp_list_canceling, given, gb_by>>
                 /\ unlinked'[h] \in Canceled
       /\ \A h \in Submitted :
             (given'[h] # given[h]
              /\ Occurrences(urbp_list_cancel, h) + Occurrences(urbp_list_canceling, h) > 0)
                 => /\ last'.op \in {"giveback", "fetch_data", "remove"}
                    /\ last'.gb = h]_vars

\* the cancel list holds two transfers, the one cancelled last at its tail
C13_Witness ==
    /\ last.op = "dequeue"
    /\ last.wake
    /\ Len(urbp_list_cancel) = 2
    /\ urbp_list_cancel[2] = last.handle
    /\ last.handle = 1

\* ---------------------------------------------------------------- C14
\* the transfer is neither in the inbox nor in the fetched list
NotCancelable(h) ==
    Occurrences(urbp_list_inbox, h) + Occurrences(urbp_list_fetched, h) = 0

\* C14 as stated: vhci_urb_dequeue for a handle that is neither pending
\* nor in service changes no list, gives nothing back and returns NotFound.
C14_CancelNotFound ==
    [][\A h \in Submitted :
          (DequeueStep(h) /\ NotCancelable(h)) =>
              /\ UNCHANGED regvars
              /\ last'.ret = NotFound]_vars

\* C14: vhci_urb_dequeue for a handle that is neither pending nor in
\* service changes no list and gives nothing back; it is refused with the
\* result of usb_hcd_check_unlink_urb, -EIDRM for a transfer already given
\* back and -EBUSY for one in the cancel or canceling list, never with 0.
C14_CancelRefused ==
    [][\A h \in Submitted :
          (DequeueStep(h) /\ NotCancelable(h)) =>
              /\ UNCHANGED regvars
              /\ last'.gb = 0
              /\ ~last'.wake
              /\ last'.ret = IF given[h] = 1 THEN EIDRM ELSE EBUSY]_vars

\* a second cancel of a transfer waiting in the cancel list was refused
\* while the other transfer had been given back
C14_Witness ==
    /\ last.op = "dequeue"
    /\ last.ret = EBUSY
    /\ Occurrences(urbp_list_cancel, last.handle) = 1
    /\ \E k \in Submitted : given[k] = 1

\* ---------------------------------------------------------------- C15
\* the step is a call of vhci_urb_enqueue with descriptor u
EnqueueStep(u) ==
    /\ last'.op = "enqueue"
    /\ last'.data = <<u>>
    /\ fw_pc' = fw_pc

\* the step appends a new transfer with descriptor u to the tail of the
\* inbox, touches no other list and wakes the worker
Appended(u) ==
    /\ last'.ret = SUCCESS
    /\ last'.wake
    /\ nurbs' = nurbs + 1
    /\ urb'[nurbs'] = u
    /\ urbp_list_inbox' = Append(urbp_list_inbox, nurbs')
    /\ UNCHANGED <<urbp_list_fetched, urbp_list_cancel, urbp_list_canceling, given>>

\* C15 as stated: vhci_urb_enqueue of an urb with non-zero buffer length
\* and null buffer returns -EINVAL and changes nothing; every other call
\* appends the urb to the tail of the inbox and wakes the worker.
C15_SubmitAlwaysAppends ==
    [][\A u \in AllUrbs :
          EnqueueStep(u) =>
              IF u.tbl # 0 /\ ~u.buf
              THEN last'.ret = EINVAL /\ UNCHANGED regvars
              ELSE Appended(u)]_vars

\* C15: vhci_urb_enqueue of an urb with non-zero buffer length and null
\* buffer returns -EINVAL and changes nothing; every other call appends the
\* urb to the tail of the inbox and wakes the worker, unless the allocation
\* of the urb's record or usb_hcd_link_urb_to_ep fails: then the call
\* returns that error and changes nothing.
C15_SubmitAppendsOrFails ==
    [][\A u \in AllUrbs :
          EnqueueStep(u) =>
              IF u.tbl # 0 /\ ~u.buf
              THEN last'.ret = EINVAL /\ ~last'.wake /\ UNCHANGED regvars
              ELSE \/ Appended(u)
                   \/ /\ last'.ret \in {ENOMEM, ESHUTDOWN}
                      /\ ~last'.wake
                      /\ UNCHANGED regvars]_vars

\* an urb without buffer was refused while another transfer was pending
C15_Witness ==
    /\ last.op = "enqueue"
    /\ last.ret = EINVAL
    /\ urbp_list_inbox # <<>>

\* ---------------------------------------------------------------- C16
\* the step is a call of ioc_giveback_common for handle h
GivebackStep(h) ==
    /\ last'.op = "giveback"
    /\ last'.handle = h
    /\ fw_pc' = fw_pc

\* C16: ioc_giveback_common for a handle that is in none of the fetched,
\* canceling and cancel lists (a handle still in the inbox, one already
\* given back or one never issued) returns -ENOENT, changes no list and
\* gives nothing back.
C16_GivebackNotFound ==
    [][\A h \in Handles :
          (/\ GivebackStep(h)
           /\ Occurrences(urbp_list_fetched, h) + Occurrences(urbp_list_canceling, h)
                 + Occurrences(urbp_list_cancel, h) = 0)
          => /\ last'.ret = NotFound
             /\ last'.gb = 0
             /\ UNCHANGED regvars]_vars

\* the worker answered for a transfer still in the inbox, after another
\* transfer had been given back
C16_Witness ==
    /\ last.op = "giveback"
    /\ last.ret = NotFound
    /\ Occurrences(urbp_list_inbox, last.handle) = 1
    /\ \E k \in Submitted : given[k] = 1

\* ---------------------------------------------------------------- C17
\* the step is a call of ioc_fetch_data_common for handle h
FetchDataStep(h) ==
    /\ last'.op = "fetch_data"
    /\ last'.handle = h
    /\ fw_pc' = fw_pc

\* C17: ioc_fetch_data_common for a handle in the cancel or canceling list
\* removes the urb from its list, gives it back within the call with the
\* unlink status and returns -ECANCELED; for a handle in the fetched list
\* it changes no list and gives nothing back; for a handle in none of the
\* three lists it returns -ENOENT and changes nothing.
C17_FetchDataFinalizesCanceled ==
    [][\A h \in Handles :
          FetchDataStep(h) =>
              IF Occurrences(urbp_list_cancel, h) + Occurrences(urbp_list_canceling, h) = 1
              THEN /\ last'.ret = ECANCELED
                   /\ last'.gb = h
                   /\ given'[h] = given[h] + 1
                   /\ given'[h] = 1
                   /\ gb_by'[h][1] = "fetch_data"
                   /\ OwnerStatus(h)' \in Canceled
                   /\ urbp_list_cancel' = SelectSeq(urbp_list_cancel, LAMBDA k : k # h)
                   /\ urbp_list_canceling' = SelectSeq(urbp_list_canceling, LAMBDA k : k # h)
                   /\ UNCHANGED <<urbp_list_inbox, urbp_list_fetched>>
              ELSE IF Occurrences(urbp_list_fetched, h) = 1
              THEN /\ last'.gb = 0
                   /\ last'.ret # ECANCELED
                   /\ UNCHANGED regvars
              ELSE /\ last'.ret = NotFound
                   /\ last'.gb = 0
                   /\ UNCHANGED regvars]_vars

\* the worker fetched the data of a transfer whose cancel request it had
\* already acknowledged, while the other transfer stayed in service
C17_Witness ==
    /\ last.op = "fetch_data"
    /\ last.ret = ECANCELED
    /\ last.gbq = "canceling"
    /\ given[last.handle] = 1
    /\ urbp_list_fetched # <<>>

\* ---------------------------------------------------------------- C18
\* the step is an accepted SetPortFeature(PORT_RESET) for port p
ResetStep(p) ==
    /\ last'.op = "SetPortFeature"
    /\ last'.port = p
    /\ last'.data = <<USB_PORT_FEAT_RESET>>
    /\ fw_pc' = fw_pc

\* port p has a device and no reset in progress
Resettable(p) ==
    /\ USB_PORT_STAT_CONNECTION \subseteq ports[p].port_status
    /\ ports[p].port_status \cap USB_PORT_STAT_RESET = {}

C19_ResetSetsChange ==
    [][\A p \in Ports :
          (ResetStep(p) /\ Resettable(p))
          => USB_PORT_STAT_C_RESET \subseteq ports'[p].port_change]_vars

\* the step sets the reset change bit of port p
RaisesResetChange(p) ==
    /\ ports[p].port_change \cap USB_PORT_STAT_C_RESET = {}
    /\ USB_PORT_STAT_C_RESET \subseteq ports'[p].port_change

\* C19: SetPortFeature(PORT_RESET) leaves the change bits of every port as
\* they were.  The reset change bit of a port is set only by ioc_port_stat
\* with a change of C_RESET for a connected port whose reset is in progress
\* (the reset bit is cleared with it), or by SetPortFeature(C_PORT_RESET).
C19_ResetChangeOnCompletion ==
    [][\A p \in Ports :
          /\ ResetStep(p) =>
                 \A q \in Ports : ports'[q].port_change = ports[q].port_change
          /\ RaisesResetChange(p) =>
                 \/ /\ last'.op = "port_stat"
                    /\ last'.port = p
                    /\ last'.ret = SUCCESS
                    /\ USB_PORT_STAT_C_RESET \subseteq last'.data[2]
                    /\ USB_PORT_STAT_CONNECTION \cup USB_PORT_STAT_RESET
                          \subseteq ports[p].port_status
                    /\ ports'[p].port_status \cap USB_PORT_STAT_RESET = {}
                 \/ /\ last'.op = "SetPortFeature"
                    /\ last'.port = p
                    /\ last'.data = <<USB_PORT_FEAT_C_RESET>>]_vars

\* a port reset has begun and the port's reset change bit is clear
C19_Witness ==
    /\ last.op = "SetPortFeature"
    /\ last.data = <<USB_PORT_FEAT_RESET>>
    /\ last.wake
    /\ USB_PORT_STAT_RESET \subseteq ports[1].port_status
    /\ ports[1].port_change \cap USB_PORT_STAT_C_RESET = {}

\* ---------------------------------------------------------------- C20
\* the feature codes vhci_hub_control has a case for, by request type
FeatureAllowed(typeReq, wValue) ==
    IF typeReq \in {"ClearHubFeature", "SetHubFeature"}
    THEN wValue \in {C_HUB_LOCAL_POWER, C_HUB_OVER_CURRENT}
    ELSE wValue \in ({USB_PORT_FEAT_SUSPEND, USB_PORT_FEAT_POWER, USB_PORT_FEAT_RESET,
                      USB_PORT_FEAT_CONNECTION, USB_PORT_FEAT_OVER_CURRENT,
                      USB_PORT_FEAT_LOWSPEED, USB_PORT_FEAT_HIGHSPEED,
                      USB_PORT_FEAT_INDICATOR} \cup ChangeFeatures
                     \cup (IF typeReq = "ClearPortFeature" THEN {USB_PORT_FEAT_ENABLE} ELSE {}))

\* the request is outside the valid domain: port index 0 or beyond the
\* port count, a feature code the request type does not allow, a non-zero
\* wLength where none is expected, a wLength other than 4 for the status
\* reads, or an unknown request type
OutsideDomain(typeReq, wValue, wIndex, wLength) ==
    IF typeReq \in PortRequests
    THEN wIndex = 0 \/ wIndex > NumPorts \/ wLength # 0 \/ ~FeatureAllowed(typeReq, wValue)
    ELSE IF typeReq \in {"ClearHubFeature", "SetHubFeature"}
    THEN wLength # 0 \/ ~FeatureAllowed(typeReq, wValue)
    ELSE IF typeReq = "GetPortStatus"
    THEN wIndex = 0 \/ wIndex > NumPorts \/ wLength # 4
    ELSE IF typeReq = "GetHubStatus" THEN wLength # 4
    ELSE typeReq # "GetHubDescriptor"

\* the step is a call of vhci_hub_control with a request outside the domain
InvalidHubStep ==
    /\ last'.req # <<>>
    /\ fw_pc' = fw_pc
    /\ OutsideDomain(last'.op, last'.req[1], last'.port, last'.req[2])

\* C20 as stated: every hub-control request outside the valid domain
\* returns -EPIPE and leaves every port's status, change and flags and the
\* port update bits unchanged.
C20_InvalidStalls ==
    [][InvalidHubStep =>
          /\ last'.ret = EPIPE
          /\ UNCHANGED <<ports, port_update>>]_vars

\* C20: every hub-control request outside the valid domain leaves every
\* port's status, change and flags and the port update bits unchanged; it
\* returns -EPIPE while the controller is accessible and -ETIMEDOUT, as
\* every request does, while it is not (HCD_FLAG_HW_ACCESSIBLE clear).
C20_InvalidStallsWhenAccessible ==
    [][InvalidHubStep =>
          /\ last'.ret = IF hw_accessible THEN EPIPE ELSE ETIMEDOUT
          /\ ~last'.wake
          /\ UNCHANGED <<ports, port_update>>]_vars

\* SetPortFeature(PORT_POWER) with a wLength of 1 was refused on an
\* accessible controller whose port 1 has a device and a pending update
C20_Witness ==
    /\ last.op = "SetPortFeature"
    /\ last.req = <<USB_PORT_FEAT_POWER, 1>>
    /\ last.ret = EPIPE
    /\ hw_accessible
    /\ USB_PORT_STAT_CONNECTION \subseteq ports[1].port_status
    /\ 1 \in port_update

\* ---------------------------------------------------------------- C21
\* the step is a call of vhci_hub_status
HubStatusStep ==
    /\ last'.op = "hub_status"
    /\ fw_pc' = fw_pc

\* the ports with a non-zero change word
ChangedPorts == { p \in Ports : ports[p].port_change # {} }

\* C21 as stated: vhci_hub_status sets bit p of the bitmap exactly when
\* port p has a non-zero change word (bit 0 never), returns 1 exactly when
\* a bit is set, and changes no port and no list.
C21_BitmapAlways ==
    [][HubStatusStep =>
          /\ last'.data[1] = ChangedPorts
          /\ 0 \notin last'.data[1]
          /\ (last'.ret = "1") = (last'.data[1] # {})
          /\ last'.ret \in {"1", SUCCESS}
          /\ UNCHANGED <<regvars, ports, port_update>>]_vars

\* C21: while the controller is accessible vhci_hub_status sets bit p of
\* the bitmap exactly when port p has a non-zero change word (bit 0 never)
\* and returns 1 exactly when a bit is set; while it is not accessible the
\* bitmap is empty and the result 0 whatever the change words are.  It
\* changes no port and no list.
C21_BitmapWhenAccessible ==
    [][HubStatusStep =>
          /\ last'.data[1] = IF hw_accessible THEN ChangedPorts ELSE {}
          /\ 0 \notin last'.data[1]
          /\ (last'.ret = "1") = (last'.data[1] # {})
          /\ last'.ret \in {"1", SUCCESS}
          /\ UNCHANGED <<regvars, ports, port_update>>]_vars

\* the hub status was read on an accessible controller while port 1 had
\* unacknowledged changes and port 2 had none
C21_Witness ==
    /\ last.op = "hub_status"
    /\ last.ret = "1"
    /\ last.data = <<{1}>>
    /\ hw_accessible
    /\ ports[1].port_change # {}

\* ---------------------------------------------------------------- C22
\* the step is a call of ioc_port_stat for port i with change value c
PortStatStep(i, c) ==
    /\ last'.op = "port_stat"
    /\ last'.port = i
    /\ last'.data[2] = c
    /\ fw_pc' = fw_pc

\* the change values the worker may report
AllowedChanges ==
    {USB_PORT_STAT_C_CONNECTION, USB_PORT_STAT_C_ENABLE, USB_PORT_STAT_C_SUSPEND,
     USB_PORT_STAT_C_OVERCURRENT, USB_PORT_STAT_C_RESET,
     USB_PORT_STAT_C_RESET \cup USB_PORT_STAT_C_ENABLE}

\* the report has to be rejected: index out of range, change value not
\* allowed, port not powered, reset completion on a port not in reset,
\* suspend change on a port not enabled
MustReject(i, c) ==
    \/ i \notin Ports
    \/ c \notin AllowedChanges
    \/ ports[i].port_status \cap USB_PORT_STAT_POWER = {}
    \/ /\ USB_PORT_STAT_C_RESET \subseteq c
       /\ ports[i].port_status \cap USB_PORT_STAT_RESET = {}
    \/ /\ c = USB_PORT_STAT_C_SUSPEND
       /\ ports[i].port_status \cap USB_PORT_STAT_ENABLE = {}

\* C22: a call of ioc_port_stat that is rejected (index out of range,
\* change value not allowed, port not powered, precondition of the
\* transition not met) returns an error and leaves every port's status,
\* change and flags and the port update bits unchanged; an accepted one
\* sets the reported change bits of the port and its port update bit.
C22_PortStatRejectOrRaise ==
    [][\A i \in 0 .. NumPorts + 1, c \in SUBSET (0 .. 4) :
          PortStatStep(i, c) =>
              /\ MustReject(i, c) => last'.ret # SUCCESS
              /\ IF last'.ret # SUCCESS
                 THEN /\ last'.ret \in {EINVAL, EPROTO}
                      /\ ~last'.wake
                      /\ UNCHANGED <<ports, port_update>>
                 ELSE /\ c \subseteq ports'[i].port_change
                      /\ ports'[i].port_change = ports[i].port_change \cup c
                      /\ port_update' = port_update \cup {i}
                      /\ \A q \in Ports \ {i} : ports'[q] = ports[q]]_vars

\* the worker reported a failed reset (C_RESET with C_ENABLE) for port 1
\* after its earlier update had been fetched, and the report was accepted
C22_Witness ==
    /\ last.op = "port_stat"
    /\ last.ret = SUCCESS
    /\ last.data[2] = USB_PORT_STAT_C_RESET \cup USB_PORT_STAT_C_ENABLE
    /\ USB_PORT_STAT_C_RESET \cup USB_PORT_STAT_C_ENABLE \subseteq ports[1].port_change
    /\ port_update = {1}
    /\ port_log.prev = 1

\* ---------------------------------------------------------------- C23
\* C23: the status field of a transfer that was submitted and has not been
\* touched since (it still waits in the inbox) is -EINPROGRESS.
C23_InProgressWhilePending ==
    \A h \in Submitted : Occurrences(urbp_list_inbox, h) = 1 => status[h] = EINPROGRESS

\* ---------------------------------------------------------------- C24
\* the latest step was a completion whose data passed validation, so that
\* ioc_giveback_common wrote the worker's status with maybe_set_status: the
\* first and only write to the status field of that transfer
CompletionWroteStatus ==
    /\ last.op = "giveback"
    /\ last.gb # 0
    /\ last.ret \in {SUCCESS, ECANCELED}

\* C24: the status handed to usb_hcd_giveback_urb is the first status
\* written with maybe_set_status; for a completion that passed validation
\* this is the status the worker supplied.
C24_FirstWriteGivenBack ==
    CompletionWroteStatus => GivebackStatus(last.gb) = last.data[1]

\* ---------------------------------------------------------------- C25
\* an operation gave an urb back and has not returned yet: ioc_fetch_work
\* is on its way back to the label repeat, or vhci_hcd_remove is in one of
\* its loops
ContinuesAfterGiveback ==
    \/ fw_pc = "repeat"
    \/ rm_pc \in {"inbox", "fetched", "cancel", "canceling"}

\* the step is the continuation of ioc_fetch_work at the label repeat
RepeatStep ==
    /\ fw_pc = "repeat"
    /\ fw_pc' # "locked"
    /\ last'.op = "fetch_work"
    /\ UNCHANGED <<nurbs, unlinked>>

\* the step is a further round of a drain loop of vhci_hcd_remove
DrainStep ==
    /\ rm_pc \in {"inbox", "fetched", "cancel", "canceling"}
    /\ last'.op = "remove"
    /\ last'.gb # 0
    /\ given' # given

Before(l, a, b) ==
    \E i, j \in 1 .. Len(l) : i < j /\ l[i] = a /\ l[j] = b

\* the step keeps the order of the entries that stay in the list and puts
\* new entries behind all of them
OrderKept(l, m) ==
    \A a, b \in Handles :
        Before(m, a, b) => (Occurrences(l, a) = 1 /\ (Occurrences(l, b) = 1 => Before(l, a, b)))

\* C26: the inbox holds the pending urbs in the order of their submission
\* and ioc_fetch_work reports its oldest entry: when urb B is reported as
\* PROCESS_URB no urb submitted before B is still pending.  The cancel list
\* holds the urbs in the order the cancellations moved them there and
\* ioc_fetch_work reports CANCEL_URB for its oldest entry.
C26_Fifo ==
    /\ [](\A a, b \in Submitted : Before(urbp_list_inbox, a, b) => a < b)
    /\ [][/\ OrderKept(urbp_list_inbox, urbp_list_inbox')
          /\ OrderKept(urbp_list_cancel, urbp_list_cancel')
          /\ \A h \in Handles :
                (FetchReturns /\ last'.handle = h
                   /\ last'.work = USB_VHCI_WORK_TYPE_PROCESS_URB)
                => /\ urbp_list_inbox # <<>> /\ Head(urbp_list_inbox) = h
                   /\ \A a \in Submitted : a < h => Occurrences(urbp_list_inbox, a) = 0
          /\ \A h \in Handles :
                (FetchReturns /\ last'.handle = h
                   /\ last'.work = USB_VHCI_WORK_TYPE_CANCEL_URB)
                => /\ urbp_list_cancel # <<>> /\ Head(urbp_list_cancel) = h
                   /\ \A a \in Handles : ~Before(urbp_list_cancel, a, h)
                   /\ urbp_list_canceling' = Append(urbp_list_canceling, h)]_vars

\* urb 2 was cancelled before urb 1 and the worker was told so in that order
C26_Witness ==
    /\ last.op = "fetch_work"
    /\ last.work = USB_VHCI_WORK_TYPE_CANCEL_URB
    /\ last.handle = 1
    /\ urbp_list_canceling = <<2, 1>>

\* ---------------------------------------------------------------- C27
\* C27: the actual length recorded for a transfer never exceeds its
\* transfer_buffer_length, and a completion whose buffer_actual exceeds it
\* is answered with a validation error, for every pipe type and direction.
C27_ActualWithinBuffer ==
    /\ \A h \in Submitted : actual_length[h] <= urb[h].tbl
    /\ (last.op = "giveback" /\ last.gb # 0 /\ last.data[2] > urb[last.gb].tbl)
          => last.ret \in {ENOBUFS, EINVAL, EFAULT}

\* ---------------------------------------------------------------- C28
\* the latest step was a completion for a handle that was found and whose
\* data passed validation
CompletionAccepted ==
    /\ last.op = "giveback"
    /\ last.gb # 0
    /\ last.ret \in {SUCCESS, ECANCELED}

\* C28: a completion is accepted with a payload exactly when the transfer
\* is an IN transfer and the actual length is greater than zero; a payload
\* for an OUT transfer or for an IN transfer of actual length zero is a
\* validation error.
C28_PayloadExactlyForInData ==
    CompletionAccepted =>
        (last.data[4] = (is_urb_dir_in(urb[last.gb]) /\ last.data[2] > 0))

\* ---------------------------------------------------------------- C29
\* C29: when ioc_giveback_common finds the handle and the worker's data
\* fail validation, the urb is removed from its list and given back once
\* within the call, neither the status nor the actual length the worker
\* supplied is stored, and the call returns -ENOBUFS, -EINVAL or -EFAULT.
C29_InvalidStillGivenBack ==
    [][\A h \in Handles :
          (/\ GivebackStep(h)
           /\ Places(h) = 1
           /\ Occurrences(urbp_list_inbox, h) = 0
           /\ ~WellFormedAnswer')
          => /\ last'.ret \in {ENOBUFS, EINVAL, EFAULT}
             /\ last'.gb = h
             /\ given[h] = 0
             /\ given'[h] = 1
             /\ Places(h)' = 0
             /\ gb_by'[h][1] = "giveback"
             /\ status' = status
             /\ actual_length' = actual_length]_vars

\* a cancelled bulk OUT transfer was completed with a payload and an error
\* status: the call failed with -EINVAL and the transfer went back
C29_Witness ==
    /\ last.op = "giveback"
    /\ last.gbq \in {"cancel", "canceling"}
    /\ last.ret = EINVAL
    /\ last.data[1] = EPROTO
    /\ last.data[4]
    /\ ~urb[last.gb].in
    /\ given[last.gb] = 1
    /\ Places(last.gb) = 0

\* ---------------------------------------------------------------- C30
\* port p is without power
Unpowered(p) == ports[p].port_status \cap USB_PORT_STAT_POWER = {}

\* the step changes port p or raises its port update
Touches(p) ==
    \/ ports'[p] # ports[p]
    \/ p \in port_update' \ port_update
    \/ last' # last /\ last'.wake /\ last'.port = p

\* the step is an accepted request typeReq with feature f for port p
PortRequestStep(typeReq, p, f) ==
    /\ last'.op = typeReq
    /\ last'.port = p
    /\ last'.ret = SUCCESS
    /\ last'.data = <<f>>
    /\ fw_pc' = fw_pc

\* C30 as stated: while a port is without power nothing but
\* SetPortFeature(PORT_POWER) changes its status, change or flags or raises
\* its port update.
C30_OnlyPowerActs ==
    [][\A p \in Ports :
          (Unpowered(p) /\ Touches(p))
          => PortRequestStep("SetPortFeature", p, USB_PORT_FEAT_POWER)]_vars

\* C30: while a port is without power its status and flags are changed by
\* SetPortFeature(PORT_POWER) only, and no port event of the worker is
\* accepted for it.  Its change word still follows the C_* features:
\* SetPortFeature(C_x) sets and ClearPortFeature(C_x) clears the bit of x,
\* and both raise the port update when they change it.
C30_PowerOrChangeFeature ==
    [][\A p \in Ports :
          (Unpowered(p) /\ Touches(p))
          => \/ /\ PortRequestStep("SetPortFeature", p, USB_PORT_FEAT_POWER)
                /\ ports'[p] = [ports[p] EXCEPT
                                  !.port_status = @ \cup USB_PORT_STAT_POWER]
             \/ \E f \in ChangeFeatures :
                   /\ PortRequestStep("SetPortFeature", p, f)
                   /\ ports'[p] = [ports[p] EXCEPT
                                     !.port_change = @ \cup {f - USB_PORT_FEAT_C_CONNECTION}]
                   /\ p \in port_update'
             \/ \E f \in ChangeFeatures :
                   /\ PortRequestStep("ClearPortFeature", p, f)
                   /\ ports'[p] = [ports[p] EXCEPT
                                     !.port_change = @ \ {f - USB_PORT_FEAT_C_CONNECTION}]
                   /\ p \in port_update']_vars

\* the worker's connection event for port 1 was refused because the port
\* has no power, while the port carries a change bit set on request
C30_Witness ==
    /\ last.op = "port_stat"
    /\ last.port = 1
    /\ last.ret = EPROTO
    /\ last.data[2] = USB_PORT_STAT_C_CONNECTION
    /\ Unpowered(1)
    /\ ports[1].port_change # {}

C32_ChangeRaisesUpdate ==
    [][\A p \in Ports :
          ports'[p].port_change # ports[p].port_change
          => /\ p \in port_update'
             /\ last' # last
             /\ last'.wake
             /\ last'.port = p
             /\ last'.op \in {"SetPortFeature", "ClearPortFeature", "port_stat"}]_vars

\* the port was disabled on request after the worker had fetched its
\* update: the change bits of enable and suspend went and the update is
\* pending again
C32_Witness ==
    /\ last.op = "ClearPortFeature"
    /\ last.data = <<USB_PORT_FEAT_ENABLE>>
    /\ last.wake
    /\ port_log.prev = 1
    /\ port_update = {1}
    /\ ports[1].port_status \cap USB_PORT_STAT_ENABLE = {}
    /\ USB_PORT_STAT_C_RESET \subseteq ports[1].port_change

\* ---------------------------------------------------------------- C33
\* the units of work ioc_fetch_work hands out
WorkUnits ==
    {USB_VHCI_WORK_TYPE_CANCEL_URB, USB_VHCI_WORK_TYPE_PORT_STAT,
     USB_VHCI_WORK_TYPE_PROCESS_URB}

\* the step on which a call of ioc_fetch_work ends in its wait
FetchGivesUp ==
    /\ fw_pc = "idle"
    /\ fw_pc' = "idle"
    /\ last'.op = "fetch_work"
    /\ last' # last

\* C33 as stated: a call of ioc_fetch_work that got past its wait returns
\* one unit of work; a call that returns without one has given back no urb
\* and changed nothing.
C33_OneUnitOrNothing ==
    [][/\ FetchReturns => last'.work \in WorkUnits
       /\ (FetchReturns /\ last'.work \notin WorkUnits) =>
              (fw_pc # "repeat" /\ UNCHANGED regvars)
       /\ FetchGivesUp => UNCHANGED <<regvars, portvars>>]_vars

\* C33: a call of ioc_fetch_work gets past its wait only when there is
\* work, and then returns one unit of work or -ENODATA.  It returns
\* -ENODATA when nothing is left to report under the lock (the work was
\* taken away after the wait), or when the pending urbs were malformed, the
\* call gave them back and the inbox is empty at the label repeat, which
\* looks at the inbox only.  The urbs a call gives back are malformed ones
\* from the inbox; the returning step itself changes nothing then, and a
\* call that ends in its wait (-ETIMEDOUT, -EINTR) changes nothing.
C33_OneUnitOrNoData ==
    [][/\ (fw_pc = "idle" /\ fw_pc' = "locked") =>
              (port_update # {} \/ urbp_list_cancel # <<>> \/ urbp_list_inbox # <<>>)
       /\ FetchReturns =>
              \/ last'.work \in WorkUnits /\ last'.ret = SUCCESS
              \/ /\ last'.work = USB_VHCI_WORK_TYPE_NONE
                 /\ last'.ret = ENODATA
                 /\ urbp_list_inbox = <<>>
                 /\ fw_pc = "locked" => (urbp_list_cancel = <<>> /\ port_update = {})
                 /\ UNCHANGED <<regvars, ports, port_update>>
       /\ \A h \in Handles :
              (fw_pc \in {"locked", "repeat"} /\ last'.op = "fetch_work"
                 /\ given'[h] # given[h])
              => /\ Malformed(urb[h])
                 /\ urbp_list_inbox # <<>> /\ Head(urbp_list_inbox) = h
                 /\ fw_pc' = "repeat"
       /\ FetchGivesUp =>
              /\ last'.ret \in {ETIMEDOUT, EINTR}
              /\ last'.work = USB_VHCI_WORK_TYPE_NONE
              /\ UNCHANGED <<regvars, portvars>>]_vars

\* the only pending urb was malformed: the call gave it back and returned
\* -ENODATA
C33_Witness ==
    /\ last.op = "fetch_work"
    /\ last.ret = ENODATA
    /\ fw_pc = "idle"
    /\ \E h \in Submitted : gb_by[h][1] = "fetch_work" /\ given[h] = 1
    /\ urbp_list_inbox = <<>>

\* ---------------------------------------------------------------- C34
\* a urb the worker has been handed, or may have been handed: it is in the
\* fetched, cancel or canceling list
WithWorker(h) == QueueOf(h) \in {"fetched", "cancel", "canceling"}

\* every submitted urb is eventually given back
EventuallyGivenBack ==
    \A h \in Handles : (h \in Submitted) ~> (given[h] = 1)

\* a urb that is with the worker is given back by a worker request or by
\* vhci_hcd_remove only
OnlyWorkerOrRemove ==
    [][\A h \in Submitted :
          (WithWorker(h) /\ given'[h] # given[h])
          => gb_by'[h][1] \in {"giveback", "fetch_data", "remove"}]_vars

\* C34 as stated: under the worker's fairness alone every submitted urb is
\* eventually given back.
C34_GivenBackUnderFairness ==
    EventuallyGivenBack /\ OnlyWorkerOrRemove

\* C34: every submitted urb is eventually given back when the worker keeps
\* calling ioc_fetch_work and answers the urbs it is handed, provided that
\* from some point on no cancellation and no port update is pending:
\* ioc_fetch_work reports those before it looks at the inbox.  A urb that
\* is with the worker is given back by a worker request or by
\* vhci_hcd_remove only.
C34_GivenBackWhenPortsQuiet ==
    /\ <>[](port_update = {} /\ urbp_list_cancel = <<>>) => EventuallyGivenBack
    /\ OnlyWorkerOrRemove

\* a urb was handed to the worker after a port update had been reported,
\* and the worker's answer gave it back
C34_Witness ==
    \E h \in Submitted :
        /\ given[h] = 1
        /\ gb_by[h][1] = "giveback"
        /\ port_log.prev # 0

\* ---------------------------------------------------------------- C35
\* how far urb h has come: not submitted, in the inbox, fetched, cancel
\* requested, cancel reported, given back
Stage(h) ==
    IF h > nurbs THEN 0
    ELSE IF QueueOf(h) = "inbox" THEN 1
    ELSE IF QueueOf(h) = "fetched" THEN 2
    ELSE IF QueueOf(h) = "cancel" THEN 3
    ELSE IF QueueOf(h) = "canceling" THEN 4
    ELSE 5

\* the step on which ioc_fetch_work returns a unit of work w for handle h
Reports(w, h) ==
    /\ FetchReturns
    /\ last'.work = w
    /\ last'.handle = h

\* C35: ioc_fetch_work reports a handle as PROCESS_URB only on the step
\* that moves it from the inbox to the fetched list, and as CANCEL_URB only
\* on the step that moves it from the cancel list to the canceling list;
\* a urb enters the cancel list from the fetched list only, is not given
\* back when it is reported, and never moves backwards through inbox,
\* fetched, cancel, canceling, given back.  So each handle is reported as
\* PROCESS_URB at most once, as CANCEL_URB at most once, and as CANCEL_URB
\* only after it was reported as PROCESS_URB and before it is given back.
C35_ConsistentReports ==
    [][\A h \in Handles :
          /\ Stage(h)' >= Stage(h)
          /\ Reports(USB_VHCI_WORK_TYPE_PROCESS_URB, h) =>
                 (Stage(h) = 1 /\ Stage(h)' = 2 /\ given'[h] = 0)
          /\ Reports(USB_VHCI_WORK_TYPE_CANCEL_URB, h) =>
                 (Stage(h) = 3 /\ Stage(h)' = 4 /\ given'[h] = 0)
          /\ (Stage(h)' = 2 /\ Stage(h) # 2) =>
                 Reports(USB_VHCI_WORK_TYPE_PROCESS_URB, h)
          /\ (Stage(h)' = 3 /\ Stage(h) # 3) => Stage(h) = 2
          /\ (Stage(h)' = 4 /\ Stage(h) # 4) =>
                 Reports(USB_VHCI_WORK_TYPE_CANCEL_URB, h)
          /\ Stage(h) = 5 => (given[h] > 0 /\ Places(h) = 0)]_vars

\* a urb has just been reported as CANCEL_URB: it is in the canceling list
\* and not given back, while another urb has already been given back
C35_Witness ==
    /\ last.op = "fetch_work"
    /\ last.work = USB_VHCI_WORK_TYPE_CANCEL_URB
    /\ Stage(last.handle) = 4
    /\ given[last.handle] = 0
    /\ \E g \in Submitted : Stage(g) = 5

\* ---------------------------------------------------------------- C36
\* the step on which ioc_fetch_work reports port p to the worker with the
\* values the port has
ReportsPort(p) ==
    /\ FetchReturns
    /\ last'.work = USB_VHCI_WORK_TYPE_PORT_STAT
    /\ last'.ret = SUCCESS
    /\ last'.port = p
    /\ last'.data = <<ports[p].port_status, ports[p].port_change, ports[p].port_flags>>
    /\ ports' = ports

\* C36: no port update is lost.  At the start every port is all-zero and
\* no update is pending; every step that changes the status, the change
\* word or the flags of a port leaves the update bit of that port set; and
\* an update bit is cleared only by the step of ioc_fetch_work that reports
\* the values of that port to the worker.  So whenever a port differs from
\* what was reported last, its update bit is set.  Only the bits of the
\* ports 1..N are ever set.
C36_NoUpdateLost ==
    /\ [](port_update \subseteq Ports)
    /\ [](last.op = "start" =>
             (port_update = {} /\ \A p \in Ports : ports[p] = PortRec({}, {}, {})))
    /\ [][\A p \in Ports :
             /\ ports'[p] # ports[p] => p \in port_update'
             /\ (p \in port_update /\ p \notin port_update') => ReportsPort(p)]_vars

\* port 1 was reported, has changed since and is pending again, while the
\* bus is suspended
C36_Witness ==
    /\ port_log.prev = 1
    /\ last.op # "fetch_work"
    /\ 1 \in port_update
    /\ USB_PORT_STAT_SUSPEND \subseteq ports[1].port_status
    /\ rh_state = "SUSPENDED"

\* ---------------------------------------------------------------- C37
\* the status word of port p has the bit b
Has(p, b) == ports[p].port_status \cap b # {}

\* C37: on every port, suspended implies enabled, enabled implies
\* connected, connected implies powered, the low-speed and the high-speed
\* bit are never both set, and a speed bit is set on a connected port only.
C37_StatusConsistent ==
    \A p \in Ports :
        /\ Has(p, USB_PORT_STAT_SUSPEND) => Has(p, USB_PORT_STAT_ENABLE)
        /\ Has(p, USB_PORT_STAT_ENABLE) => Has(p, USB_PORT_STAT_CONNECTION)
        /\ Has(p, USB_PORT_STAT_CONNECTION) => Has(p, USB_PORT_STAT_POWER)
        /\ ~ (Has(p, USB_PORT_STAT_LOW_SPEED) /\ Has(p, USB_PORT_STAT_HIGH_SPEED))
        /\ (Has(p, USB_PORT_STAT_LOW_SPEED) \/ Has(p, USB_PORT_STAT_HIGH_SPEED))
               => Has(p, USB_PORT_STAT_CONNECTION)

\* the worker has just reported a connection with both speed bits set, on
\* a port that had been enabled, suspended and resumed before: the port is
\* connected at low speed and not enabled
C37_Witness ==
    /\ last.op = "port_stat"
    /\ last.ret = SUCCESS
    /\ last.data = <<USB_PORT_STAT_CONNECTION \cup USB_PORT_STAT_LOW_SPEED
                       \cup USB_PORT_STAT_HIGH_SPEED, USB_PORT_STAT_C_CONNECTION>>
    /\ Has(1, USB_PORT_STAT_LOW_SPEED)
    /\ ~Has(1, USB_PORT_STAT_ENABLE)
    /\ USB_PORT_STAT_C_SUSPEND \subseteq ports[1].port_change

\* ---------------------------------------------------------------- C38
\* the step is an accepted report of the worker that the reset of port p
\* has completed with the port enabled
ResetCompletes(p) ==
    /\ last'.op = "port_stat"
    /\ last' # last
    /\ last'.ret = SUCCESS
    /\ last'.port = p
    /\ last'.data = <<USB_PORT_STAT_ENABLE, USB_PORT_STAT_C_RESET>>
    /\ fw_pc' = fw_pc

\* C38: on every port, a reset in progress implies connected and excludes
\* enabled and suspended; the enable bit becomes set only on the step that
\* accepts the worker's report of a completed reset, on a port that was
\* resetting, and that step ends the reset.
C38_ResetExcludesEnable ==
    /\ [](\A p \in Ports :
             Has(p, USB_PORT_STAT_RESET) =>
                 /\ Has(p, USB_PORT_STAT_CONNECTION)
                 /\ ~Has(p, USB_PORT_STAT_ENABLE)
                 /\ ~Has(p, USB_PORT_STAT_SUSPEND))
    /\ [][\A p \in Ports :
             (~Has(p, USB_PORT_STAT_ENABLE) /\ Has(p, USB_PORT_STAT_ENABLE)') =>
                 /\ ResetCompletes(p)
                 /\ Has(p, USB_PORT_STAT_RESET)
                 /\ ~Has(p, USB_PORT_STAT_RESET)']_vars

\* a port that completed a reset before is being reset again while the
\* root hub is suspended: the reset has cleared the enable bit
C38_Witness ==
    /\ last.op = "SetPortFeature"
    /\ last.data = <<USB_PORT_FEAT_RESET>>
    /\ Has(1, USB_PORT_STAT_RESET)
    /\ ~Has(1, USB_PORT_STAT_ENABLE)
    /\ USB_PORT_STAT_C_RESET \subseteq ports[1].port_change
    /\ rh_state = "SUSPENDED"

\* ---------------------------------------------------------------- C39
\* port p has the private resuming flag
Resuming(p) == ports[p].port_flags \cap USB_VHCI_PORT_STAT_FLAG_RESUMING # {}

\* C39: on every port, the resuming flag is set only while the suspend bit
\* is set; every step that clears the suspend bit leaves the resuming flag
\* clear, and the flag becomes set only by ClearPortFeature(PORT_SUSPEND)
\* on a suspended port.
C39_ResumingOnlySuspended ==
    /\ [](\A p \in Ports : Resuming(p) => Has(p, USB_PORT_STAT_SUSPEND))
    /\ [][\A p \in Ports :
             /\ (Has(p, USB_PORT_STAT_SUSPEND) /\ ~Has(p, USB_PORT_STAT_SUSPEND)')
                    => ~Resuming(p)'
             /\ (~Resuming(p) /\ Resuming(p)') =>
                    /\ PortRequestStep("ClearPortFeature", p, USB_PORT_FEAT_SUSPEND)
                    /\ Has(p, USB_PORT_STAT_SUSPEND)]_vars

\* a suspended port is resuming and the worker has just been told so
C39_Witness ==
    /\ last.op = "fetch_work"
    /\ last.work = USB_VHCI_WORK_TYPE_PORT_STAT
    /\ last.port = 1
    /\ last.data[3] = USB_VHCI_PORT_STAT_FLAG_RESUMING
    /\ Resuming(1)
    /\ Has(1, USB_PORT_STAT_SUSPEND)

====
